---- MODULE Spec2Model ----
(***************************************************************************)
(* Model of the MCP23017 emulator core (src/mcp23017_emulator/src/         *)
(* mcp23017.rs), of the loop that drives it                                *)
(* (src/mcp23017_emulator_stm32/src/main.rs), and of the Playing state of  *)
(* the game (src/game_pure/src/lib.rs).                                    *)
(*                                                                         *)
(* Spec        the emulator as constructed by Mcp23017::new, driven by any *)
(*             sequence of calls of its public methods.                    *)
(* SpecFields  the same methods taken as functions of the struct's fields: *)
(*             bank_mode and sequential_mode start at any value.  No code  *)
(*             path writes either flag to true, so these are the methods'  *)
(*             contracts over their inputs, not runs of the firmware.      *)
(* SpecLoop    main's loop: select(run(), listen()), the reset line and    *)
(*             the clock as its environment.                               *)
(* SpecGame    the methods of GameState called on the Playing state that a *)
(*             click on Start Game builds.                                 *)
(* SpecSetup   the methods of GameState called on the SettingUp state that *)
(*             GameState::new builds.                                      *)
(* SpecDebounce  Debouncer::process_data (src/code/src/lib/debouncer.rs    *)
(*             and src/stm32_code/src/debouncer.rs) called with the        *)
(*             readings of an input at the instants of a monotonic clock.  *)
(* SpecSpi     the transactions of the devices of one LazySharedSpi        *)
(*             (src/code/src/lib/lazy_shared_spi.rs, lazy_shared_spi_2.rs),*)
(*             each under the bus mutex, with pins and bus that may fail.  *)
(***************************************************************************)
EXTENDS Integers, Sequences, FiniteSets, TLC

VARIABLES
    bank_mode,          \* Mcp23017.bank_mode
    sequential_mode,    \* Mcp23017.sequential_mode
    selected_address,   \* Mcp23017.selected_address (u8)
    io_directions,      \* Mcp23017.io_directions, pin index -> "Input" | "Output"
    pull_up_enabled,    \* Mcp23017.pull_up_enabled, pin index -> BOOLEAN
    gpio_pins,          \* Mcp23017.gpio_pins: the mode last pushed to each Flex pin
    update_pin_calls,   \* history: pin index -> the calls of Mcp23017::update_pin on
                        \* that pin made by the last call of a method
    panicked,           \* the firmware hit todo!() or an arithmetic overflow check
    overflow_checks,    \* what u8 overflow does in this build: "panic" or "wrap";
                        \* "undetermined" until the first overflow shows it
    buffer,             \* the caller's buffer after the last prepare_read_buffer
    last,               \* history: the call the caller is in and its arguments
    pre,                \* history: the emulator's fields when that call was made
    main_pc,            \* where main's loop is: "loop", "select", "respond_read",
                        \* "respond_write"; "caller" when the methods are called directly
    run_future,         \* the await run() is parked at: "wait_for_low",
                        \* "wait_for_high"; "dropped" when no run() future is alive
    woken,              \* the edge that await is waiting for has raised its interrupt
    low_since,          \* ResetPin.low_since: an instant, or -1 for None
    line,               \* level of the reset line: "high" | "low"
    now,                \* Instant::now(), in microseconds
    fell_at,            \* history: when the reset line last went low
    longest_low,        \* history: the longest completed low period of the line
    reset_after_low,    \* history: the longest low period the line had had when
                        \* run() last called reset(); -1 if it never did
    game_state,         \* game_pure: the GameStatePlaying inside GameState::Playing
    game_last,          \* history: the method of GameState called last, its argument
    game_pre,           \* history: game_state when that method was called
    pulse,              \* history: "low" while the line is low after falling with
                        \* run() parked at wait_for_low; "long" once it has risen
                        \* after at least minimum_duration and until run() calls
                        \* reset(); "none" otherwise
    debouncer,          \* a Debouncer<Level>: value, pending_value, debounce_time
    debounce_last,      \* history: the crate of the debouncer, the last call of
                        \* process_data, its arguments and whether it reported a change
    debounce_pre,       \* history: the debouncer when that call was made
    observed,           \* history: the reading of the last call and the instant
                        \* since which every reading was that one
    spi_inner,          \* Inner of a LazySharedSpi: active_cs
    spi_mutex,          \* the device whose transaction holds the Mutex; 0 if free
    spi_pc,             \* device -> where its transaction is: "idle", "locked",
                        \* "operations"
    cs_pins,            \* pin -> the last command it carried out with Ok(()):
                        \* "set_low", "set_high"; "none" before the first
    spi_history         \* history: the crate of the bus, the pin that carried out
                        \* the last set_low, the Result of the last step

emu == <<bank_mode, sequential_mode, selected_address, io_directions,
         pull_up_enabled, gpio_pins, panicked>>
driver == <<main_pc, run_future, woken, low_since, line, now, fell_at,
            longest_low, reset_after_low, pulse>>
vars == <<bank_mode, sequential_mode, selected_address, io_directions,
          pull_up_enabled, gpio_pins, update_pin_calls, panicked, overflow_checks, buffer, last,
          pre, main_pc, run_future, woken, low_since, line, now, fell_at,
          longest_low, reset_after_low, pulse, game_state, game_last, game_pre,
          debouncer, debounce_last, debounce_pre, observed,
          spi_inner, spi_mutex, spi_pc, cs_pins, spi_history>>
\* the emulator with its caller or loop, and the game
mcp == <<bank_mode, sequential_mode, selected_address, io_directions,
         pull_up_enabled, gpio_pins, update_pin_calls, panicked, overflow_checks, buffer, last,
         pre, main_pc, run_future, woken, low_since, line, now, fell_at,
         longest_low, reset_after_low, pulse>>
game == <<game_state, game_last, game_pre>>
\* the drivers of src/code/src/lib
debounce == <<debouncer, debounce_last, debounce_pre, observed>>
shared_spi == <<spi_inner, spi_mutex, spi_pc, cs_pins, spi_history>>
lib == <<debounce, shared_spi>>

-----------------------------------------------------------------------------
(* Program constants *)

N_GPIO_PINS_PER_SET == 8
AB_COUNT == 2
N_TOTAL_GPIO_PINS == N_GPIO_PINS_PER_SET * AB_COUNT
RegisterType_COUNT == 11
U8_MAX == 255
\* Duration::from_micros(1), in microseconds
minimum_duration == 1
\* length of main's read and write buffers
BUFFER_LEN == 32

RegisterType ==
    <<"IODIR", "IPOL", "GPINTEN", "DEFVAL", "INTCON", "IOCON",
      "GPPU", "INTF", "INTCAP", "GPIO", "OLAT">>

Pins == 0 .. (N_TOTAL_GPIO_PINS - 1)
None == "None"

(* Bounds of the model *)

MaxValueBytes == 2      \* value bytes after the address byte of one write
MaxBuffer == 3          \* length of the buffer handed to prepare_read_buffer
MaxBytesRead == 4       \* argument of confirm_bytes_read
MaxTime == 2            \* microseconds the clock runs for
MaxFascistScanned == 7  \* fascist policy cards in one scan
MaxBoards == 5          \* Bluetooth peripherals that can be found
MaxInstant == 4         \* ticks the clock of the debouncer runs for
MaxDebounce == 2        \* longest debounce_time, in ticks
MaxDevices == 3         \* devices sharing one SPI bus

(* Sampled inputs *)

\* first bytes of write transactions under Spec (bank_mode = false): both
\* banks of IODIR, GPPU, GPIO and OLAT, an unimplemented register (GPINTEN B),
\* the first invalid address, and the two largest u8
AddressSample == {0, 1, 5, 10, 12, 13, 18, 19, 20, 21, 22, 254, 255}
\* under SpecFields: IODIR A, IOCON A, GPPU A, GPIO A and IODIR B of bank mode,
\* the last valid address, and the two largest u8.  Without 22 a cycling
\* pointer stays in 0..21 or meets the overflow at u8::MAX at once.
FieldsAddressSample == {0, 5, 6, 9, 11, 21, 254, 255}
\* value bytes
ValueSample == {15, 170}
\* levels of the 16 physical lines, one byte per bank
LevelSample == {<<0, 0>>, <<85, 204>>}
\* what the bus hands main's loop: write transactions received, and the
\* numbers of bytes a read transmitted
LoopWriteSample == {<<>>, <<12>>, <<0, 170>>, <<18, 15>>}
TransmittedSample == {0, 1, BUFFER_LEN, BUFFER_LEN + 1}

-----------------------------------------------------------------------------
(* Bits and bytes *)

Pow2(n) == 2 ^ n

\* (value & (1 << index)) != 0
BitSet(value, index) == ((value \div Pow2(index)) % 2) = 1

RECURSIVE OrBits(_, _)
\* value |= u8::from(bits[i]) << i, for i in 0 .. n-1
OrBits(bits, n) ==
    IF n = 0 THEN 0
    ELSE OrBits(bits, n - 1) + (IF bits[n - 1] THEN Pow2(n - 1) ELSE 0)

-----------------------------------------------------------------------------
(* AB *)

set_index(ab) == IF ab = "A" THEN 0 ELSE 1

range(ab) ==
    (set_index(ab) * N_GPIO_PINS_PER_SET) ..
        ((set_index(ab) + 1) * N_GPIO_PINS_PER_SET - 1)

-----------------------------------------------------------------------------
(* Addressing *)

from_repr(n) == IF n < RegisterType_COUNT THEN RegisterType[n + 1] ELSE None

\* faulty variant: in bank mode the first address of bank B is taken for bank A
register_from_addr_late_bank_b(address, bank) ==
    IF bank
    THEN IF address <= RegisterType_COUNT
         THEN [ab |-> "A", type |-> from_repr(address)]
         ELSE [ab |-> "B", type |-> from_repr(address - RegisterType_COUNT)]
    ELSE [ab |-> IF address % 2 = 0 THEN "A" ELSE "B",
          type |-> from_repr(address \div 2)]

\* Option<Register>: a register whose type is None stands for Rust's None
register_from_addr(address, bank) ==
    IF bank
    THEN IF address < RegisterType_COUNT
         THEN [ab |-> "A", type |-> from_repr(address)]
         ELSE [ab |-> "B", type |-> from_repr(address - RegisterType_COUNT)]
    ELSE [ab |-> IF address % 2 = 0 THEN "A" ELSE "B",
          type |-> from_repr(address \div 2)]

\* faulty variant: Toggle always adds one
advance_address_toggle_up(current_address, mode) ==
    CASE mode = "Fixed" -> current_address
      [] mode = "Toggle" -> current_address + 1
      [] mode = "Cycle" ->
            IF current_address = RegisterType_COUNT * 2 - 1
            THEN 0
            ELSE current_address + 1

\* faulty variant: Toggle leaves an odd address where it is
advance_address_toggle_sticks(current_address, mode) ==
    CASE mode = "Fixed" -> current_address
      [] mode = "Toggle" ->
            IF current_address % 2 = 0
            THEN current_address + 1
            ELSE current_address
      [] mode = "Cycle" ->
            IF current_address = RegisterType_COUNT * 2 - 1
            THEN 0
            ELSE current_address + 1

\* The mathematical result; above U8_MAX the u8 addition overflowed.
advance_address(current_address, mode) ==
    CASE mode = "Fixed" -> current_address
      [] mode = "Toggle" ->
            IF current_address % 2 = 0
            THEN current_address + 1
            ELSE current_address - 1
      [] mode = "Cycle" ->
            IF current_address = RegisterType_COUNT * 2 - 1
            THEN 0
            ELSE current_address + 1

-----------------------------------------------------------------------------
(* The emulator, as a record of its fields *)

Self ==
    [bank_mode |-> bank_mode, sequential_mode |-> sequential_mode,
     selected_address |-> selected_address, io_directions |-> io_directions,
     pull_up_enabled |-> pull_up_enabled, gpio_pins |-> gpio_pins,
     update_pin_calls |-> [i \in Pins |-> 0],
     panicked |-> panicked, overflow_checks |-> overflow_checks,
     overflowed |-> FALSE]

\* Mcp23017Gpio::update_pin: the mode the Flex pin is put in
Mcp23017Gpio_update_pin(io_direction, pull_up) ==
    IF io_direction = "Input"
    THEN [mode |-> "Input", pull |-> IF pull_up THEN "Up" ELSE "None"]
    ELSE [mode |-> "Output", pull |-> "None"]

update_pin(self, pin_index) ==
    [self EXCEPT !.gpio_pins[pin_index] =
                    Mcp23017Gpio_update_pin(self.io_directions[pin_index], FALSE),
                 !.update_pin_calls[pin_index] = @ + 1]

\* update_pin for every index of a set: each call reads only that pin's
\* direction, so the order of the calls does not matter
update_pins(self, indexes) ==
    [self EXCEPT !.gpio_pins =
                    [i \in Pins |-> IF i \in indexes
                                    THEN update_pin(self, i).gpio_pins[i]
                                    ELSE self.gpio_pins[i]],
                 !.update_pin_calls =
                    [i \in Pins |-> IF i \in indexes
                                    THEN update_pin(self, i).update_pin_calls[i]
                                    ELSE self.update_pin_calls[i]]]

\* faulty variant: reset forgets the pull-up flags
reset_keeps_pull_ups(self) ==
    update_pins(
        [self EXCEPT !.bank_mode = FALSE,
                     !.selected_address = 0,
                     !.io_directions = [i \in Pins |-> "Input"]],
        Pins)

\* faulty variant: reset re-configures only the pins whose direction or pull-up
\* differed from the defaults
reset_only_changed_pins(self) ==
    update_pins(
        [self EXCEPT !.bank_mode = FALSE,
                     !.selected_address = 0,
                     !.io_directions = [i \in Pins |-> "Input"],
                     !.pull_up_enabled = [i \in Pins |-> FALSE]],
        {i \in Pins : self.io_directions[i] # "Input" \/ self.pull_up_enabled[i]})

reset(self) ==
    update_pins(
        [self EXCEPT !.bank_mode = FALSE,
                     !.selected_address = 0,
                     !.io_directions = [i \in Pins |-> "Input"],
                     !.pull_up_enabled = [i \in Pins |-> FALSE]],
        Pins)

advance_address_mode(self) ==
    IF self.sequential_mode THEN "Cycle"
    ELSE IF ~self.bank_mode THEN "Toggle"
    ELSE "Fixed"

\* u8 arithmetic of the build: an overflowing addition panics or wraps
U8(self, n) ==
    IF n <= U8_MAX THEN [panicked |-> FALSE, overflowed |-> FALSE, value |-> n]
    ELSE IF self.overflow_checks = "panic"
         THEN [panicked |-> TRUE, overflowed |-> TRUE, value |-> 0]
         ELSE [panicked |-> FALSE, overflowed |-> TRUE, value |-> n % (U8_MAX + 1)]

Mcp23017_advance_address(self) ==
    LET next == U8(self, advance_address(self.selected_address,
                                         advance_address_mode(self)))
    IN IF next.panicked THEN [self EXCEPT !.panicked = TRUE, !.overflowed = TRUE]
       ELSE [self EXCEPT !.selected_address = next.value,
                         !.overflowed = self.overflowed \/ next.overflowed]

\* faulty variant: a write to IOCON stores the BANK and SEQOP bits
write_register_sets_iocon(self, register, value) ==
    CASE register.type = "IODIR" ->
            LET new_io_directions ==
                    [i \in Pins |->
                        IF i \in range(register.ab)
                        THEN IF BitSet(value, i - set_index(register.ab) * N_GPIO_PINS_PER_SET)
                             THEN "Input" ELSE "Output"
                        ELSE self.io_directions[i]]
                changed == {i \in Pins : new_io_directions[i] # self.io_directions[i]}
            IN update_pins([self EXCEPT !.io_directions = new_io_directions], changed)
      [] register.type = "GPPU" ->
            LET new_pull_up_enabled ==
                    [i \in Pins |->
                        IF i \in range(register.ab)
                        THEN BitSet(value, i - set_index(register.ab) * N_GPIO_PINS_PER_SET)
                        ELSE self.pull_up_enabled[i]]
                changed == {i \in Pins : new_pull_up_enabled[i] # self.pull_up_enabled[i]}
            IN update_pins([self EXCEPT !.pull_up_enabled = new_pull_up_enabled], changed)
      [] register.type = "IOCON" ->
            [self EXCEPT !.bank_mode = BitSet(value, 7),
                         !.sequential_mode = BitSet(value, 5)]
      [] OTHER -> [self EXCEPT !.panicked = TRUE]

\* faulty variant: the byte is applied to the pins of both banks
write_register_both_banks(self, register, value) ==
    CASE register.type = "IODIR" ->
            LET new_io_directions ==
                    [i \in Pins |->
                        IF BitSet(value, i % N_GPIO_PINS_PER_SET)
                        THEN "Input" ELSE "Output"]
                changed == {i \in Pins : new_io_directions[i] # self.io_directions[i]}
            IN update_pins([self EXCEPT !.io_directions = new_io_directions], changed)
      [] register.type = "GPPU" ->
            LET new_pull_up_enabled ==
                    [i \in Pins |-> BitSet(value, i % N_GPIO_PINS_PER_SET)]
                changed == {i \in Pins : new_pull_up_enabled[i] # self.pull_up_enabled[i]}
            IN update_pins([self EXCEPT !.pull_up_enabled = new_pull_up_enabled], changed)
      [] OTHER -> [self EXCEPT !.panicked = TRUE]

\* faulty variant: a write to any other register is ignored
write_register_ignores_others(self, register, value) ==
    CASE register.type = "IODIR" ->
            LET new_io_directions ==
                    [i \in Pins |->
                        IF i \in range(register.ab)
                        THEN IF BitSet(value, i - set_index(register.ab) * N_GPIO_PINS_PER_SET)
                             THEN "Input" ELSE "Output"
                        ELSE self.io_directions[i]]
                changed == {i \in Pins : new_io_directions[i] # self.io_directions[i]}
            IN update_pins([self EXCEPT !.io_directions = new_io_directions], changed)
      [] register.type = "GPPU" ->
            LET new_pull_up_enabled ==
                    [i \in Pins |->
                        IF i \in range(register.ab)
                        THEN BitSet(value, i - set_index(register.ab) * N_GPIO_PINS_PER_SET)
                        ELSE self.pull_up_enabled[i]]
                changed == {i \in Pins : new_pull_up_enabled[i] # self.pull_up_enabled[i]}
            IN update_pins([self EXCEPT !.pull_up_enabled = new_pull_up_enabled], changed)
      [] OTHER -> self

write_register(self, register, value) ==
    CASE register.type = "IODIR" ->
            LET new_io_directions ==
                    [i \in Pins |->
                        IF i \in range(register.ab)
                        THEN IF BitSet(value, i - set_index(register.ab) * N_GPIO_PINS_PER_SET)
                             THEN "Input" ELSE "Output"
                        ELSE self.io_directions[i]]
                changed == {i \in Pins : new_io_directions[i] # self.io_directions[i]}
            IN update_pins([self EXCEPT !.io_directions = new_io_directions], changed)
      [] register.type = "GPPU" ->
            LET new_pull_up_enabled ==
                    [i \in Pins |->
                        IF i \in range(register.ab)
                        THEN BitSet(value, i - set_index(register.ab) * N_GPIO_PINS_PER_SET)
                        ELSE self.pull_up_enabled[i]]
                changed == {i \in Pins : new_pull_up_enabled[i] # self.pull_up_enabled[i]}
            IN update_pins([self EXCEPT !.pull_up_enabled = new_pull_up_enabled], changed)
      [] OTHER -> [self EXCEPT !.panicked = TRUE]     \* todo!("write ...")

RECURSIVE write_bytes(_, _)
\* faulty variant: a byte for an address without a register is dropped before
\* the pointer is advanced
write_bytes_keeps_pointer(self, bytes) ==
    IF bytes = <<>> \/ self.panicked THEN self
    ELSE LET register == register_from_addr(self.selected_address, self.bank_mode)
         IN IF register.type = None THEN write_bytes(self, Tail(bytes))
            ELSE LET written == write_register(self, register, Head(bytes))
                 IN IF written.panicked THEN written
                    ELSE write_bytes(Mcp23017_advance_address(written), Tail(bytes))

\* the for loop of process_write_transaction over bytes[1..]
write_bytes(self, bytes) ==
    IF bytes = <<>> \/ self.panicked THEN self
    ELSE LET register == register_from_addr(self.selected_address, self.bank_mode)
             written == IF register.type = None THEN self
                        ELSE write_register(self, register, Head(bytes))
         IN IF written.panicked THEN written
            ELSE write_bytes(Mcp23017_advance_address(written), Tail(bytes))

\* faulty variant: the loop runs over bytes instead of bytes[1..]
process_write_transaction_from_first(self, bytes) ==
    IF bytes = <<>> THEN self
    ELSE write_bytes([self EXCEPT !.selected_address = Head(bytes)], bytes)

process_write_transaction(self, bytes) ==
    IF bytes = <<>> THEN self
    ELSE write_bytes([self EXCEPT !.selected_address = Head(bytes)], Tail(bytes))

\* faulty variant: the bits are assembled in the opposite order
read_register_reversed(self, register, is_high) ==
    CASE register.type = "IODIR" ->
            [panicked |-> FALSE,
             value |-> OrBits([i \in 0 .. (N_GPIO_PINS_PER_SET - 1) |->
                                 self.io_directions[(N_GPIO_PINS_PER_SET - 1 - i) + set_index(register.ab) * N_GPIO_PINS_PER_SET] = "Input"],
                              N_GPIO_PINS_PER_SET)]
      [] register.type = "GPPU" ->
            [panicked |-> FALSE,
             value |-> OrBits([i \in 0 .. (N_GPIO_PINS_PER_SET - 1) |->
                                 self.pull_up_enabled[(N_GPIO_PINS_PER_SET - 1 - i) + set_index(register.ab) * N_GPIO_PINS_PER_SET]],
                              N_GPIO_PINS_PER_SET)]
      [] register.type = "GPIO" ->
            [panicked |-> FALSE,
             value |-> OrBits([i \in 0 .. (N_GPIO_PINS_PER_SET - 1) |->
                                 is_high[i + set_index(register.ab) * N_GPIO_PINS_PER_SET]],
                              N_GPIO_PINS_PER_SET)]
      [] OTHER -> [panicked |-> TRUE, value |-> 0]

\* is_high: pin index -> BOOLEAN, what each bound pin's is_high() returns
read_register(self, register, is_high) ==
    CASE register.type = "IODIR" ->
            [panicked |-> FALSE,
             value |-> OrBits([i \in 0 .. (N_GPIO_PINS_PER_SET - 1) |->
                                 self.io_directions[i + set_index(register.ab) * N_GPIO_PINS_PER_SET] = "Input"],
                              N_GPIO_PINS_PER_SET)]
      [] register.type = "GPPU" ->
            [panicked |-> FALSE,
             value |-> OrBits([i \in 0 .. (N_GPIO_PINS_PER_SET - 1) |->
                                 self.pull_up_enabled[i + set_index(register.ab) * N_GPIO_PINS_PER_SET]],
                              N_GPIO_PINS_PER_SET)]
      [] register.type = "GPIO" ->
            [panicked |-> FALSE,
             value |-> OrBits([i \in 0 .. (N_GPIO_PINS_PER_SET - 1) |->
                                 is_high[i + set_index(register.ab) * N_GPIO_PINS_PER_SET]],
                              N_GPIO_PINS_PER_SET)]
      [] OTHER -> [panicked |-> TRUE, value |-> 0]    \* todo!("read ...")

RECURSIVE read_bytes(_, _, _, _, _)
\* the for loop of prepare_read_buffer: `address` is the local copy, `filled`
\* the bytes written so far, `buf` the rest of the caller's buffer
read_bytes(self, address, filled, buf, is_high) ==
    IF buf = <<>> THEN [self |-> self, buffer |-> filled]
    ELSE LET register == register_from_addr(address, self.bank_mode)
             read == IF register.type = None
                     THEN [panicked |-> FALSE, value |-> Head(buf)]
                     ELSE read_register(self, register, is_high)
             next == U8(self, advance_address(address, advance_address_mode(self)))
         IN IF read.panicked
            THEN [self |-> [self EXCEPT !.panicked = TRUE], buffer |-> filled \o buf]
            ELSE IF next.panicked
            THEN [self |-> [self EXCEPT !.panicked = TRUE, !.overflowed = TRUE],
                  buffer |-> Append(filled, read.value) \o Tail(buf)]
            ELSE read_bytes([self EXCEPT !.overflowed = self.overflowed \/ next.overflowed],
                            next.value, Append(filled, read.value), Tail(buf), is_high)

RECURSIVE confirm_bytes_read(_, _)
confirm_bytes_read(self, bytes_read) ==
    IF bytes_read = 0 \/ self.panicked THEN self
    ELSE confirm_bytes_read(Mcp23017_advance_address(self), bytes_read - 1)

\* faulty variant: the local copy of the pointer is written back
prepare_read_buffer_moves_pointer(self, buf, is_high) ==
    LET r == read_bytes(self, self.selected_address, <<>>, buf, is_high)
    IN [r EXCEPT !.self = confirm_bytes_read(r.self, Len(buf))]

\* faulty variant: reading a register re-pushes the configuration of pin 0 with the
\* pull-up flag applied
prepare_read_buffer_configures(self, buf, is_high) ==
    LET r == read_bytes(self, self.selected_address, <<>>, buf, is_high)
    IN [r EXCEPT !.self.gpio_pins[0] =
            Mcp23017Gpio_update_pin(self.io_directions[0], TRUE)]

\* faulty variant: every byte is the register at the pointer, the local
\* address is not advanced from byte to byte
prepare_read_buffer_repeats_first(self, buf, is_high) ==
    LET r == read_bytes(self, self.selected_address, <<>>, buf, is_high)
    IN [r EXCEPT !.buffer = [i \in 1 .. Len(buf) |-> r.buffer[1]]]

prepare_read_buffer(self, buf, is_high) ==
    read_bytes(self, self.selected_address, <<>>, buf, is_high)

\* Mcp23017::new: the struct literal, then s.reset()
new ==
    reset([bank_mode |-> FALSE, sequential_mode |-> FALSE, selected_address |-> 0,
           io_directions |-> [i \in Pins |-> "Input"],
           pull_up_enabled |-> [i \in Pins |-> FALSE],
           gpio_pins |-> [i \in Pins |-> [mode |-> "Unconfigured", pull |-> "None"]],
           update_pin_calls |-> [i \in Pins |-> 0],
           panicked |-> FALSE, overflow_checks |-> "undetermined", overflowed |-> FALSE])

-----------------------------------------------------------------------------
(* The reset monitor *)

RECURSIVE wait_until_reset(_, _, _, _)
\* One poll of ResetPin::wait_until_reset, until it parks at an await or
\* breaks.  `at` is where the poll starts: "top" of the loop (a new future),
\* "low" / "high" when the parked wait_for_low / wait_for_high has completed.
\* ExtiInput's wait_for_low / wait_for_high return at once if the line is at
\* that level when they are called.
wait_until_reset(at, low, level, instant) ==
    CASE at = "high" ->
            \* self.low_since = None; let low_duration = low_since.elapsed();
            IF instant - low >= minimum_duration
            THEN [future |-> "done", low_since |-> -1]
            ELSE wait_until_reset("top", -1, level, instant)
      [] at = "low" ->
            \* self.low_since = Some(Instant::now());
            wait_until_reset("top", instant, level, instant)
      [] at = "top" ->
            IF low # -1
            THEN IF level = "high"
                 THEN wait_until_reset("high", low, level, instant)
                 ELSE [future |-> "wait_for_high", low_since |-> low]
            ELSE IF level = "low"
                 THEN wait_until_reset("low", low, level, instant)
                 ELSE [future |-> "wait_for_low", low_since |-> low]

\* One poll of Mcp23017::run: when wait_until_reset returns, reset() runs and
\* the loop calls wait_until_reset again, which parks.
run(at, low, level, instant) ==
    LET first == wait_until_reset(at, low, level, instant)
    IN IF first.future = "done"
       THEN LET again == wait_until_reset("top", first.low_since, level, instant)
            IN [future |-> again.future, low_since |-> again.low_since, reset |-> TRUE]
       ELSE [future |-> first.future, low_since |-> first.low_since, reset |-> FALSE]

-----------------------------------------------------------------------------
(* Inputs *)

RECURSIVE SeqsUpTo(_, _)
SeqsUpTo(S, n) ==
    IF n = 0 THEN {<<>>}
    ELSE LET shorter == SeqsUpTo(S, n - 1)
         IN shorter \cup {Append(s, x) : s \in {t \in shorter : Len(t) = n - 1}, x \in S}

ValueSeqs == SeqsUpTo(ValueSample, MaxValueBytes)

WriteInputs(addresses) ==
    {<<>>} \cup {<<a>> \o vs : a \in addresses, vs \in ValueSeqs}

Levels(pair) ==
    [i \in Pins |->
        BitSet(pair[(i \div N_GPIO_PINS_PER_SET) + 1], i % N_GPIO_PINS_PER_SET)]

ZeroBuffer(len) == [i \in 1 .. len |-> 0]

\* the caller holds no result of a call
Idle == [op |-> "idle", bytes |-> <<>>, len |-> -1, n |-> 0, levels |-> <<0, 0>>]

-----------------------------------------------------------------------------
(* game_pure: the Playing state of the game *)

LIBERAL_POLICY_CARDS == 6
LIBERAL_BOARD_SLOTS == 5
FASCIST_BOARD_SLOTS == 6

\* MainMenuSelectedItem::StartGame: `players: 10, // TODO: Configure this in settings`
PLAYERS == 10

HitlerState == {"Secret", "ElectedChancellor", "Dead"}
SecretRole == {"Liberal", "Fascist", "Hitler"}
Input == {"Up", "Down", "Click"}
ConnectState == {"Connecting", "Connected"}

latest_action(players, fascist_policies_placed) ==
    CASE players \in {5, 6} ->
            (CASE fascist_policies_placed = 3 -> "ExamineTop3"
               [] fascist_policies_placed \in {4, 5} -> "Kill"
               [] OTHER -> None)
      [] players \in {7, 8} ->
            (CASE fascist_policies_placed = 2 -> "CheckParty"
               [] fascist_policies_placed = 3 -> "ChooseNextPresident"
               [] fascist_policies_placed \in {4, 5} -> "Kill"
               [] OTHER -> None)
      [] players \in {9, 10} ->
            (CASE fascist_policies_placed \in {1, 2} -> "CheckParty"
               [] fascist_policies_placed = 3 -> "ChooseNextPresident"
               [] fascist_policies_placed \in {4, 5} -> "Kill"
               [] OTHER -> None)
      [] OTHER -> "unreachable"      \* unreachable!()

can_clear_with_button_press(action) ==
    CASE action \in {"CheckParty", "ChooseNextPresident", "ExamineTop3"} -> TRUE
      [] action = "Kill" -> FALSE

\* Option<Team>
winner(state) ==
    CASE state.hitler_state = "Secret" ->
            IF state.liberal_policies_placed = LIBERAL_BOARD_SLOTS
            THEN "Liberal"
            ELSE IF state.fascist_policies_placed = FASCIST_BOARD_SLOTS
            THEN "Fascist"
            ELSE None
      [] state.hitler_state = "ElectedChancellor" -> "Fascist"
      [] state.hitler_state = "Dead" -> "Liberal"

\* the GameStatePlaying that a click on Start Game builds from the connection
\* the setup made
GameStatePlaying(connection_status) ==
    [players |-> PLAYERS,
     connection_status |-> connection_status,
     liberal_policies_placed |-> 0,
     fascist_policies_placed |-> 0,
     hitler_state |-> "Secret",
     election_fail_streak |-> 0,
     pending_action |-> FALSE,
     panicked |-> FALSE]

\* faulty variant: a button dismisses every hint
process_input_clears_kill(state, input) ==
    IF state.pending_action
    THEN IF latest_action(state.players, state.fascist_policies_placed) = None
         THEN [state EXCEPT !.panicked = TRUE]
         ELSE [state EXCEPT !.pending_action = FALSE]
    ELSE state

\* the Playing arm; unwrap() of None panics
process_input(state, input) ==
    IF state.pending_action
    THEN IF latest_action(state.players, state.fascist_policies_placed) = None
         THEN [state EXCEPT !.panicked = TRUE]
         ELSE IF can_clear_with_button_press(
                    latest_action(state.players, state.fascist_policies_placed))
              THEN [state EXCEPT !.pending_action = FALSE]
              ELSE state
    ELSE state

get_leds(state) ==
    [aura_led_color |->
        CASE winner(state) = "Liberal" -> "LiberalWin"
          [] winner(state) = "Fascist" -> "FascistWin"
          [] winner(state) = None -> "BoardSpecific",
     liberal_policy_leds |-> state.liberal_policies_placed,
     fascist_policy_leds |-> state.fascist_policies_placed,
     election_tracker_leds |-> state.election_fail_streak]

\* the cards of one team among those scanned on both boards
CountTeam(cards, team) ==
    Cardinality({card \in cards.liberal : card.team = team})
        + Cardinality({card \in cards.fascist : card.team = team})

update_scanned_policy_cards(state, cards) ==
    LET liberal_policies_placed == CountTeam(cards, "Liberal")
        fascist_policies_placed == CountTeam(cards, "Fascist")
        new_policy_card_placed ==
            \/ liberal_policies_placed > state.liberal_policies_placed
            \/ fascist_policies_placed > state.fascist_policies_placed
        after_liberal ==
            IF liberal_policies_placed > state.liberal_policies_placed
            THEN FALSE
            ELSE state.pending_action
        after_fascist ==
            IF fascist_policies_placed > state.fascist_policies_placed
            THEN latest_action(state.players, fascist_policies_placed) # None
            ELSE after_liberal
    IN [state EXCEPT
            !.election_fail_streak = IF new_policy_card_placed THEN 0 ELSE @,
            !.pending_action = after_fascist,
            !.liberal_policies_placed = liberal_policies_placed,
            !.fascist_policies_placed = fascist_policies_placed]

process_dead_character(state, character) ==
    IF /\ latest_action(state.players, state.fascist_policies_placed) = "Kill"
       /\ state.pending_action
    THEN [state EXCEPT
            !.hitler_state = IF character.secret_role = "Hitler" THEN "Dead" ELSE @,
            !.pending_action = FALSE]
    ELSE state

\* Option<FascistAction>
display_action_hint(state) ==
    IF state.pending_action
    THEN latest_action(state.players, state.fascist_policies_placed)
    ELSE None

ble_connected(state) == [state EXCEPT !.connection_status.state = "Connected"]

ble_disconnected(state) == [state EXCEPT !.connection_status.state = "Connecting"]

\* in the Playing state: unreachable!("this function must be called while scanning")
ble_peripheral_found(state, address) == [state EXCEPT !.panicked = TRUE]

\* BdAddr::new([0x00, 0x01, 0x02, 0x03, 0x04, 0x05])
AddressOfBoard == <<0, 1, 2, 3, 4, 5>>

\* DetectedPolicyCards with the first `liberal` liberal and the first
\* `fascist` fascist policy cards, each on the board of its team or, when
\* `misplaced`, each on the board of the other team
DetectedPolicyCards(liberal, fascist, misplaced) ==
    LET of_team(team, count) == {[team |-> team, id |-> id] : id \in 0 .. (count - 1)}
    IN IF misplaced
       THEN [liberal |-> of_team("Fascist", fascist), fascist |-> of_team("Liberal", liberal)]
       ELSE [liberal |-> of_team("Liberal", liberal), fascist |-> of_team("Fascist", fascist)]

CardsSample ==
    {DetectedPolicyCards(liberal, fascist, misplaced) :
        liberal \in 0 .. LIBERAL_POLICY_CARDS,
        fascist \in 0 .. MaxFascistScanned,
        misplaced \in BOOLEAN}

\* no method of GameState has been called
NotCalled == [op |-> "start", role |-> None]

-----------------------------------------------------------------------------
(* game_pure: the SettingUp state of the game *)

SCAN_LIST_SIZE == 4

\* the VariantArray enums of the menus; a selected_item indexes them from 0
MainMenuSelectedItem == <<"StartGame", "Bluetooth">>
ScanningSelectedItem == <<"Back", "Title">>
ConnectingConnectedSelectedItem == <<"Back", "Title", "Cancel">>

\* `Item as usize`
AsUsize(variants, item) == CHOOSE i \in 0 .. (Len(variants) - 1) : variants[i + 1] = item

\* ConnectionAction
Scan(peripherals) == [kind |-> "Scan", peripherals |-> peripherals]
Connect(status) == [kind |-> "Connect", status |-> status]

\* GameScreen
MainMenu(selected_item) ==
    [kind |-> "MainMenu", scroll_y |-> 0, selected_item |-> selected_item]
Scanning(selected_item) ==
    [kind |-> "Scanning", scroll_y |-> 0, selected_item |-> selected_item]
ConnectingConnected(selected_item) ==
    [kind |-> "ConnectingConnected", scroll_y |-> 0, selected_item |-> selected_item]

\* GameState::new: peripheral_address is an Option<BdAddr>, <<address>> for
\* Some(address) and <<>> for None
GameState_new(peripheral_address) ==
    [connection_action |->
        IF peripheral_address # <<>>
        THEN Connect([peripheral_address |-> peripheral_address[1],
                      state |-> "Connecting"])
        ELSE Scan(<<>>),
     screen |-> MainMenu(0),
     panicked |-> FALSE]

\* GameState::SettingUp(_), as against GameState::Playing(_)
IsSettingUp(state) == "screen" \in DOMAIN state

Min(a, b) == IF a < b THEN a ELSE b
saturating_sub(a, b) == IF a < b THEN 0 ELSE a - b

\* the SettingUp arm of process_input; a panic is unreachable!() or an index
\* out of bounds
process_input_SettingUp(state, input) ==
    LET selected_item == state.screen.selected_item
        panic == [state EXCEPT !.panicked = TRUE]
    IN CASE state.screen.kind = "MainMenu" ->
              (CASE input = "Click" ->
                      IF selected_item >= Len(MainMenuSelectedItem) THEN panic
                      ELSE IF MainMenuSelectedItem[selected_item + 1] = "StartGame"
                      THEN IF state.connection_action.kind = "Connect"
                           THEN GameStatePlaying(state.connection_action.status)
                           ELSE [state EXCEPT !.screen =
                                    Scanning(AsUsize(ScanningSelectedItem, "Title"))]
                      ELSE [state EXCEPT !.screen =
                                Scanning(AsUsize(ScanningSelectedItem, "Title"))]
                 [] input = "Down" ->
                      [state EXCEPT !.screen.selected_item =
                            Min(selected_item + 1, Len(MainMenuSelectedItem) - 1)]
                 [] input = "Up" ->
                      [state EXCEPT !.screen.selected_item =
                            saturating_sub(selected_item, 1)])
         [] state.screen.kind = "Scanning" ->
              IF state.connection_action.kind # "Scan" THEN panic
              ELSE LET peripherals == state.connection_action.peripherals
                   IN (CASE input = "Click" ->
                              IF selected_item < Len(ScanningSelectedItem)
                              THEN IF ScanningSelectedItem[selected_item + 1] = "Back"
                                   THEN [state EXCEPT !.screen =
                                            MainMenu(AsUsize(MainMenuSelectedItem,
                                                             "Bluetooth"))]
                                   ELSE state
                              ELSE IF selected_item - Len(ScanningSelectedItem)
                                        >= Len(peripherals)
                              THEN panic
                              ELSE [state EXCEPT
                                      !.connection_action =
                                          Connect([peripheral_address |->
                                                      peripherals[selected_item
                                                        - Len(ScanningSelectedItem) + 1],
                                                   state |-> "Connecting"]),
                                      !.screen =
                                          ConnectingConnected(
                                              AsUsize(ConnectingConnectedSelectedItem,
                                                      "Title"))]
                        [] input = "Down" ->
                              [state EXCEPT !.screen.selected_item =
                                    Min(selected_item + 1,
                                        Len(ScanningSelectedItem) + Len(peripherals) - 1)]
                        [] input = "Up" ->
                              [state EXCEPT !.screen.selected_item =
                                    saturating_sub(selected_item, 1)])
         [] state.screen.kind = "ConnectingConnected" ->
              (CASE input = "Click" ->
                      IF selected_item >= Len(ConnectingConnectedSelectedItem) THEN panic
                      ELSE (CASE ConnectingConnectedSelectedItem[selected_item + 1] = "Back" ->
                                  [state EXCEPT !.screen =
                                      MainMenu(AsUsize(MainMenuSelectedItem, "Bluetooth"))]
                             [] ConnectingConnectedSelectedItem[selected_item + 1] = "Title" ->
                                  state
                             [] ConnectingConnectedSelectedItem[selected_item + 1] = "Cancel" ->
                                  [state EXCEPT !.connection_action = Scan(<<>>),
                                                !.screen = Scanning(0)])
                 [] input = "Down" ->
                      [state EXCEPT !.screen.selected_item =
                            Min(selected_item + 1,
                                Len(ConnectingConnectedSelectedItem) - 1)]
                 [] input = "Up" ->
                      [state EXCEPT !.screen.selected_item =
                            saturating_sub(selected_item, 1)])

\* GameState::screen in the SettingUp state: the Option<Screen> it returns,
\* <<screen>> for Some(screen) and <<>> for None, or the panic of unreachable!()
screen(state) ==
    CASE state.screen.kind = "MainMenu" ->
            [panicked |-> FALSE,
             value |-> <<[title |-> "Setup", can_go_back |-> FALSE,
                          items |-> <<"Start Game", "Bluetooth">>,
                          selected_item |-> 0]>>]
      [] state.screen.kind = "Scanning" ->
            IF state.connection_action.kind = "Scan"
            THEN [panicked |-> FALSE,
                  value |-> <<[title |-> "Bluetooth", can_go_back |-> TRUE,
                               items |-> [i \in 1 .. Len(state.connection_action.peripherals) |->
                                            [addr |-> state.connection_action.peripherals[i],
                                             kind |-> "RANDOM"]],
                               selected_item |-> 0]>>]
            ELSE [panicked |-> TRUE, value |-> <<>>]
      [] OTHER -> [panicked |-> FALSE, value |-> <<>>]

\* BleAction
ble_action_SettingUp(state) ==
    IF state.connection_action.kind = "Scan" THEN "Scan" ELSE "MaintainConnection"

\* the SettingUp arm of ble_peripheral_found; a full list refuses the push
ble_peripheral_found_SettingUp(state, address) ==
    IF state.connection_action.kind = "Scan"
    THEN LET peripherals == state.connection_action.peripherals
         IN IF \E i \in 1 .. Len(peripherals) : peripherals[i] = address
            THEN state
            ELSE IF Len(peripherals) < SCAN_LIST_SIZE
            THEN [state EXCEPT !.connection_action.peripherals = Append(peripherals, address)]
            ELSE state
    ELSE [state EXCEPT !.panicked = TRUE]

\* ble_connected / ble_disconnected in the SettingUp state; expect() panics
\* while scanning
ble_connection_state_SettingUp(state, connect_state) ==
    IF state.connection_action.kind = "Connect"
    THEN [state EXCEPT !.connection_action.status.state = connect_state]
    ELSE [state EXCEPT !.panicked = TRUE]

\* the addresses of the boards in range
BoardAddresses == 1 .. MaxBoards

-----------------------------------------------------------------------------
(* Debouncer: src/code/src/lib/debouncer.rs and src/stm32_code/src/debouncer.rs.
   An Option is a sequence: <<>> for None, <<x>> for Some(x). *)

\* embassy's gpio Level, the T of the debouncers of the switches
Level == {"Low", "High"}

\* the instants of the clock and the debounce times, in ticks
Instants == 0 .. MaxInstant
DebounceTimes == 0 .. MaxDebounce

\* Debouncer::new of src/code/src/lib
Debouncer_new(initial_value, debounce_time) ==
    [value |-> initial_value, pending_value |-> <<>>, debounce_time |-> debounce_time]

\* Debouncer::new of src/stm32_code
stm32_Debouncer_new(debounce_time) ==
    [value |-> <<>>, pending_value |-> <<>>, debounce_time |-> debounce_time]

\* the (T, Instant) of pending_value
Pending(value, instant) == [value |-> value, instant |-> instant]

\* Debouncer::process_data of src/code/src/lib: the debouncer after the call
\* and the bool it returns
process_data(self, latest_data, instant_now) ==
    IF latest_data = self.value
    THEN [self |-> [self EXCEPT !.pending_value = <<>>], returned |-> FALSE]
    ELSE IF self.pending_value # <<>> /\ self.pending_value[1].value = latest_data
    THEN IF instant_now - self.pending_value[1].instant > self.debounce_time
         THEN [self |-> [self EXCEPT !.value = self.pending_value[1].value,
                                     !.pending_value = <<>>],
               returned |-> TRUE]
         ELSE [self |-> self, returned |-> FALSE]
    ELSE [self |-> [self EXCEPT !.pending_value = <<Pending(latest_data, instant_now)>>],
          returned |-> FALSE]

\* faulty variant: a reading of the stable value keeps the pending value
stm32_process_data_keeps_pending(self, latest_data, instant_now) ==
    IF <<latest_data>> = self.value
    THEN [self |-> self, returned |-> <<>>]
    ELSE IF self.pending_value # <<>> /\ self.pending_value[1].value = latest_data
    THEN IF instant_now - self.pending_value[1].instant >= self.debounce_time
         THEN [self |-> [self EXCEPT !.value = <<self.pending_value[1].value>>,
                                     !.pending_value = <<>>],
               returned |-> <<self.pending_value[1].value>>]
         ELSE [self |-> self, returned |-> <<>>]
    ELSE [self |-> [self EXCEPT !.pending_value = <<Pending(latest_data, instant_now)>>],
          returned |-> <<>>]

\* Debouncer::process_data of src/stm32_code: the debouncer after the call and
\* the Option<&T> it returns
stm32_process_data(self, latest_data, instant_now) ==
    IF <<latest_data>> = self.value
    THEN [self |-> [self EXCEPT !.pending_value = <<>>], returned |-> <<>>]
    ELSE IF self.pending_value # <<>> /\ self.pending_value[1].value = latest_data
    THEN IF instant_now - self.pending_value[1].instant >= self.debounce_time
         THEN [self |-> [self EXCEPT !.value = <<self.pending_value[1].value>>,
                                     !.pending_value = <<>>],
               returned |-> <<self.pending_value[1].value>>]
         ELSE [self |-> self, returned |-> <<>>]
    ELSE [self |-> [self EXCEPT !.pending_value = <<Pending(latest_data, instant_now)>>],
          returned |-> <<>>]

\* the run of equal readings that a reading continues or starts
Observe(readings, latest_data, instant_now) ==
    IF readings # <<>> /\ readings[1].value = latest_data
    THEN readings
    ELSE <<Pending(latest_data, instant_now)>>

\* no call of process_data made yet
NotProcessed(crate) ==
    [crate |-> crate, op |-> "new", latest_data |-> None, now |-> 0, changed |-> FALSE]

-----------------------------------------------------------------------------
(* LazySharedSpi: src/code/src/lib/lazy_shared_spi.rs and lazy_shared_spi_2.rs.
   Device d owns chip-select pin d: its RefCell in lazy_shared_spi, its index
   into cs_pins in lazy_shared_spi_2. *)

Devices == 1 .. MaxDevices

CsState == {"Low", "Undefined"}

ActiveCs(index, state) == [index |-> index, state |-> state]

\* LazySharedSpi::new: Inner { spi, active_cs: None }
LazySharedSpi_new == [active_cs |-> <<>>]

\* the Results of set_config and of the set_high and set_low a transaction
\* awaits: TRUE for Ok(()), FALSE for Err
PinResults == [set_config : BOOLEAN, set_high : BOOLEAN, set_low : BOOLEAN]

\* a command a chip-select pin carried out with Ok(())
Command(pin, command) == [pin |-> pin, command |-> command]

\* what the part of a transaction before the bus operations leaves: Inner, the
\* commands the pins carried out in order, and Ok or the Err that `?` returns
Selected(inner, commands, result) ==
    [inner |-> inner, commands |-> commands, result |-> result]

\* faulty variant: the chip-select of the other device is left as it is
select_chip_leaves_other_low(inner, index, ok) ==
    IF ~ok.set_config THEN Selected(inner, <<>>, "Err")
    ELSE IF ~ok.set_low
    THEN Selected([inner EXCEPT !.active_cs = <<ActiveCs(index, "Undefined")>>],
                  <<>>, "Err")
    ELSE Selected([inner EXCEPT !.active_cs = <<ActiveCs(index, "Low")>>],
                  <<Command(index, "set_low")>>, "Ok")

\* SpiDeviceWithConfig::transaction of lazy_shared_spi.rs, from set_config to
\* the chip-select being low
select_chip(inner, index, ok) ==
    IF ~ok.set_config THEN Selected(inner, <<>>, "Err")
    ELSE IF inner.active_cs # <<>>
    THEN LET active_cs == inner.active_cs[1]
         IN IF active_cs.index = index
            THEN IF active_cs.state = "Low"
                 THEN Selected(inner, <<>>, "Ok")
                 ELSE IF ok.set_low
                 THEN Selected(inner, <<Command(index, "set_low")>>, "Ok")
                 ELSE Selected(inner, <<>>, "Err")
            ELSE IF ~ok.set_high
            THEN Selected(inner, <<>>, "Err")
            ELSE IF ~ok.set_low
            THEN Selected([inner EXCEPT !.active_cs = <<ActiveCs(index, "Undefined")>>],
                          <<Command(active_cs.index, "set_high")>>, "Err")
            ELSE Selected([inner EXCEPT !.active_cs = <<ActiveCs(index, "Low")>>],
                          <<Command(active_cs.index, "set_high"),
                            Command(index, "set_low")>>, "Ok")
    ELSE IF ~ok.set_low
    THEN Selected([inner EXCEPT !.active_cs = <<ActiveCs(index, "Undefined")>>],
                  <<>>, "Err")
    ELSE Selected([inner EXCEPT !.active_cs = <<ActiveCs(index, "Low")>>],
                  <<Command(index, "set_low")>>, "Ok")

\* SpiDeviceWithConfig2::transaction of lazy_shared_spi_2.rs, from set_config
\* to the chip-select being low; `active_cs.index == self.index && false`
\* never holds
select_chip_2(inner, index, ok) ==
    IF ~ok.set_config THEN Selected(inner, <<>>, "Err")
    ELSE IF inner.active_cs # <<>>
    THEN LET active_cs == inner.active_cs[1]
         IN IF ~ok.set_high
            THEN Selected([inner EXCEPT !.active_cs =
                                <<ActiveCs(active_cs.index, "Undefined")>>],
                          <<>>, "Err")
            ELSE IF ~ok.set_low
            THEN Selected([inner EXCEPT !.active_cs = <<ActiveCs(index, "Undefined")>>],
                          <<Command(active_cs.index, "set_high")>>, "Err")
            ELSE Selected([inner EXCEPT !.active_cs = <<ActiveCs(index, "Low")>>],
                          <<Command(active_cs.index, "set_high"),
                            Command(index, "set_low")>>, "Ok")
    ELSE IF ~ok.set_low
    THEN Selected([inner EXCEPT !.active_cs = <<ActiveCs(index, "Undefined")>>],
                  <<>>, "Err")
    ELSE Selected([inner EXCEPT !.active_cs = <<ActiveCs(index, "Low")>>],
                  <<Command(index, "set_low")>>, "Ok")

RECURSIVE Carried(_, _)
\* the last command each pin carried out, after `commands`
Carried(pins, commands) ==
    IF commands = <<>> THEN pins
    ELSE Carried([pins EXCEPT ![Head(commands).pin] = Head(commands).command],
                 Tail(commands))

RECURSIVE LastDrivenLow(_, _)
\* the pin that carried out the last set_low, after `commands`
LastDrivenLow(pin, commands) ==
    IF commands = <<>> THEN pin
    ELSE LastDrivenLow(IF Head(commands).command = "set_low"
                       THEN <<Head(commands).pin>> ELSE pin,
                       Tail(commands))

-----------------------------------------------------------------------------
(* State machine *)

\* The fields become those of `result.self`, the emulator after a call made on
\* SelfIn(build).  A call that overflowed a u8 shows the build's behaviour.
SetSelf(result, build) ==
    /\ bank_mode' = result.self.bank_mode
    /\ sequential_mode' = result.self.sequential_mode
    /\ selected_address' = result.self.selected_address
    /\ io_directions' = result.self.io_directions
    /\ pull_up_enabled' = result.self.pull_up_enabled
    /\ gpio_pins' = result.self.gpio_pins
    /\ update_pin_calls' = result.self.update_pin_calls
    /\ panicked' = result.self.panicked
    /\ overflow_checks' = IF result.self.overflowed THEN build ELSE overflow_checks
    /\ buffer' = result.buffer

SelfIn(build) == [Self EXCEPT !.overflow_checks = build]

\* `call` takes the emulator to [self, buffer].  While the build's overflow
\* behaviour has not shown, a call that overflows has both outcomes.
Call(call(_)) ==
    IF overflow_checks # "undetermined"
    THEN SetSelf(call(Self), overflow_checks)
    ELSE LET wrapped == call(SelfIn("wrap"))
         IN IF wrapped.self.overflowed
            THEN \/ SetSelf(wrapped, "wrap")
                 \/ SetSelf(call(SelfIn("panic")), "panic")
            ELSE SetSelf(wrapped, "wrap")

InitFrom(self) ==
    /\ bank_mode = self.bank_mode
    /\ sequential_mode = self.sequential_mode
    /\ selected_address = self.selected_address
    /\ io_directions = self.io_directions
    /\ pull_up_enabled = self.pull_up_enabled
    /\ gpio_pins = self.gpio_pins
    /\ update_pin_calls = self.update_pin_calls
    /\ panicked = self.panicked
    /\ overflow_checks = self.overflow_checks
    /\ buffer = <<>>
    /\ last = Idle
    /\ pre = self

\* The methods are called directly: there is no loop, no run() future and no
\* clock.
NoDriver ==
    /\ main_pc = "caller"
    /\ run_future = "dropped"
    /\ woken = FALSE
    /\ low_since = -1
    /\ line = "high"
    /\ now = 0
    /\ fell_at = 0
    /\ longest_low = 0
    /\ reset_after_low = -1
    /\ pulse = "none"

\* The game is not played: its state stays as a click on Start Game built it.
NoGame ==
    /\ game_state = GameStatePlaying([peripheral_address |-> AddressOfBoard,
                                      state |-> "Connecting"])
    /\ game_last = NotCalled
    /\ game_pre = game_state

\* no debouncer in use
NoDebounce ==
    /\ debouncer = Debouncer_new("High", 0)
    /\ debounce_last = NotProcessed("code")
    /\ debounce_pre = debouncer
    /\ observed = <<>>

\* LazySharedSpi::new or LazySharedSpi2::new, no transaction made
NoSpi(crate) ==
    /\ spi_inner = LazySharedSpi_new
    /\ spi_mutex = 0
    /\ spi_pc = [device \in Devices |-> "idle"]
    /\ cs_pins = [pin \in Devices |-> "none"]
    /\ spi_history = [crate |-> crate, driven_low |-> <<>>, result |-> "Ok"]

NoLib == NoDebounce /\ NoSpi("lazy_shared_spi")

Init == InitFrom(new) /\ NoDriver /\ NoGame /\ NoLib

InitFields ==
    /\ \E bank \in BOOLEAN, sequential \in BOOLEAN :
        InitFrom([new EXCEPT !.bank_mode = bank, !.sequential_mode = sequential])
    /\ NoDriver
    /\ NoGame
    /\ NoLib

\* The caller of the public methods: it calls one method at a time, keeps what
\* it passed until the call is over (Return), and may follow a
\* prepare_read_buffer directly by its confirm_bytes_read.

ProcessWriteTransaction(addresses) ==
    /\ main_pc = "caller"
    /\ UNCHANGED <<driver, game, lib>>
    /\ ~panicked
    /\ last.op = "idle"
    /\ \E bytes \in WriteInputs(addresses) :
        /\ LET call(self) == [self |-> process_write_transaction(self, bytes),
                              buffer |-> buffer]
           IN Call(call)
        /\ last' = [Idle EXCEPT !.op = "write", !.bytes = bytes]
    /\ pre' = Self

PrepareReadBuffer ==
    /\ main_pc = "caller"
    /\ UNCHANGED <<driver, game, lib>>
    /\ ~panicked
    /\ last.op = "idle"
    /\ \E len \in 0 .. MaxBuffer, levels \in LevelSample :
        LET call(self) == prepare_read_buffer(self, ZeroBuffer(len), Levels(levels))
        IN /\ Call(call)
           /\ last' = [Idle EXCEPT !.op = "prepare", !.len = len, !.levels = levels]
    /\ pre' = Self

ConfirmBytesRead ==
    /\ main_pc = "caller"
    /\ UNCHANGED <<driver, game, lib>>
    /\ ~panicked
    /\ last.op \in {"idle", "prepare"}
    /\ \E n \in 0 .. MaxBytesRead :
        /\ LET call(self) == [self |-> confirm_bytes_read(self, n), buffer |-> buffer]
           IN Call(call)
        /\ last' = [last EXCEPT !.op = "confirm", !.n = n]
    /\ pre' = IF last.op = "prepare" THEN pre ELSE Self

Reset ==
    /\ main_pc = "caller"
    /\ UNCHANGED <<driver, game, lib>>
    /\ ~panicked
    /\ last.op = "idle"
    /\ LET call(self) == [self |-> reset(self), buffer |-> buffer]
       IN Call(call)
    /\ last' = [Idle EXCEPT !.op = "reset"]
    /\ pre' = Self

Return ==
    /\ main_pc = "caller"
    /\ UNCHANGED <<driver, game, lib>>
    /\ ~panicked
    /\ last.op # "idle"
    /\ last' = Idle
    /\ pre' = Self
    /\ buffer' = <<>>
    /\ update_pin_calls' = [i \in Pins |-> 0]
    /\ UNCHANGED <<emu, overflow_checks>>

-----------------------------------------------------------------------------
(* main's loop:  loop { select(mcp23017.run(), i2c.listen()) ... } *)

\* the longest low period of the reset line so far, the current one included
LongestLow ==
    IF line = "low" /\ now - fell_at > longest_low THEN now - fell_at ELSE longest_low

\* the poll of run() that select makes: `polled` is what run() returned
Polled(polled) ==
    /\ low_since' = polled.low_since
    /\ woken' = FALSE
    /\ reset_after_low' = IF polled.reset THEN LongestLow ELSE reset_after_low
    /\ longest_low' = IF polled.reset THEN 0 ELSE longest_low
    /\ pulse' = IF polled.reset THEN "none" ELSE pulse
    /\ UNCHANGED <<line, now, fell_at>>

\* run() where it is parked, polled again
Resumed ==
    IF woken
    THEN run(IF run_future = "wait_for_low" THEN "low" ELSE "high", low_since, line, now)
    ELSE [future |-> run_future, low_since |-> low_since, reset |-> FALSE]

\* The loop comes round: select is built and polls a new run() future first.
EnterSelect ==
    /\ UNCHANGED <<game, lib>>
    /\ main_pc = "loop"
    /\ ~panicked
    /\ LET polled == run("top", low_since, line, now)
           call(self) == [self |-> IF polled.reset THEN reset(self) ELSE self,
                          buffer |-> <<>>]
       IN /\ Call(call)
          /\ Polled(polled)
          /\ run_future' = polled.future
          /\ last' = IF polled.reset THEN [Idle EXCEPT !.op = "run_reset"] ELSE Idle
          /\ pre' = Self
    /\ main_pc' = "select"

\* The edge run() waits for has come: select polls run().
PollRun ==
    /\ UNCHANGED <<game, lib>>
    /\ main_pc = "select"
    /\ ~panicked
    /\ woken
    /\ LET polled == Resumed
           call(self) == [self |-> IF polled.reset THEN reset(self) ELSE self,
                          buffer |-> buffer]
       IN /\ Call(call)
          /\ Polled(polled)
          /\ run_future' = polled.future
          /\ last' = IF polled.reset THEN [Idle EXCEPT !.op = "run_reset"] ELSE last
          /\ pre' = IF polled.reset THEN Self ELSE pre
    /\ UNCHANGED main_pc

\* i2c.listen() completes: select polls run() a last time, returns
\* Second(command) and drops the run() future.  A Read command is answered from
\* a buffer prepared at once.
Listen ==
    /\ UNCHANGED <<game, lib>>
    /\ main_pc = "select"
    /\ ~panicked
    /\ \E command \in {"Err", "Read", "Write"}, levels \in LevelSample :
        LET polled == Resumed
            polled_self(self) == IF polled.reset THEN reset(self) ELSE self
            call(self) ==
                IF command = "Read"
                THEN prepare_read_buffer(polled_self(self), ZeroBuffer(BUFFER_LEN),
                                         Levels(levels))
                ELSE [self |-> polled_self(self), buffer |-> <<>>]
        IN /\ Call(call)
           /\ Polled(polled)
           /\ run_future' = "dropped"
           /\ pre' = [polled_self(Self) EXCEPT !.overflowed = FALSE,
                                               !.update_pin_calls = [i \in Pins |-> 0]]
           /\ last' = IF command = "Read"
                      THEN [Idle EXCEPT !.op = "prepare", !.len = BUFFER_LEN,
                                        !.levels = levels]
                      ELSE Idle
           /\ main_pc' = CASE command = "Err" -> "loop"
                            [] command = "Read" -> "respond_read"
                            [] command = "Write" -> "respond_write"

\* faulty variant: the run() future is polled once more while the read is
\* answered, so its reset() can fall between the prepare and the confirm
RespondToRead_polls_run ==
    /\ UNCHANGED <<game, lib>>
    /\ main_pc = "respond_read"
    /\ ~panicked
    /\ \E bytes_transmitted \in {-1} \cup TransmittedSample :
        LET polled == run("top", low_since, line, now)
            polled_self(self) == IF polled.reset THEN reset(self) ELSE self
        IN /\ IF bytes_transmitted = -1 \/ bytes_transmitted > BUFFER_LEN
              THEN /\ LET call(self) == [self |-> polled_self(self), buffer |-> buffer]
                      IN Call(call)
                   /\ last' = [last EXCEPT !.op = "unconfirmed", !.n = bytes_transmitted]
              ELSE /\ LET call(self) ==
                              [self |-> confirm_bytes_read(polled_self(self),
                                                           bytes_transmitted),
                               buffer |-> buffer]
                      IN Call(call)
                   /\ last' = [last EXCEPT !.op = "confirm", !.n = bytes_transmitted]
           /\ Polled(polled)
    /\ main_pc' = "loop"
    /\ UNCHANGED <<pre, run_future>>

\* blocking_respond_to_read returns: an error, or the number of bytes the
\* controller took (-1 stands for Err)
RespondToRead ==
    /\ UNCHANGED <<game, lib>>
    /\ main_pc = "respond_read"
    /\ ~panicked
    /\ \E bytes_transmitted \in {-1} \cup TransmittedSample :
        IF bytes_transmitted = -1 \/ bytes_transmitted > BUFFER_LEN
        THEN /\ UNCHANGED <<emu, overflow_checks, buffer, pre>>
             /\ update_pin_calls' = [i \in Pins |-> 0]
             /\ last' = [last EXCEPT !.op = "unconfirmed", !.n = bytes_transmitted]
        ELSE /\ LET call(self) == [self |-> confirm_bytes_read(self, bytes_transmitted),
                                   buffer |-> buffer]
                IN Call(call)
             /\ last' = [last EXCEPT !.op = "confirm", !.n = bytes_transmitted]
             /\ UNCHANGED pre
    /\ main_pc' = "loop"
    /\ UNCHANGED <<run_future, woken, low_since, line, now, fell_at, longest_low,
                   reset_after_low, pulse>>

\* blocking_respond_to_write returns: an error, or the bytes received
RespondToWrite ==
    /\ UNCHANGED <<game, lib>>
    /\ main_pc = "respond_write"
    /\ ~panicked
    /\ \/ /\ UNCHANGED <<emu, overflow_checks, buffer, pre>>
          /\ update_pin_calls' = [i \in Pins |-> 0]
          /\ last' = [Idle EXCEPT !.op = "unreceived"]
       \/ \E bytes \in LoopWriteSample :
            /\ LET call(self) == [self |-> process_write_transaction(self, bytes),
                                  buffer |-> buffer]
               IN Call(call)
            /\ last' = [Idle EXCEPT !.op = "write", !.bytes = bytes]
            /\ pre' = Self
    /\ main_pc' = "loop"
    /\ UNCHANGED <<run_future, woken, low_since, line, now, fell_at, longest_low,
                   reset_after_low, pulse>>

(* The environment of the loop *)

Tick ==
    /\ UNCHANGED <<game, lib>>
    /\ main_pc # "caller"
    /\ ~panicked
    /\ now < MaxTime
    /\ now' = now + 1
    /\ UNCHANGED <<emu, update_pin_calls, overflow_checks, buffer, last, pre, main_pc, run_future, woken,
                   low_since, line, fell_at, longest_low, reset_after_low, pulse>>

LineFalls ==
    /\ UNCHANGED <<game, lib>>
    /\ main_pc # "caller"
    /\ ~panicked
    /\ line = "high"
    /\ line' = "low"
    /\ fell_at' = now
    /\ woken' = (woken \/ (main_pc = "select" /\ run_future = "wait_for_low"))
    /\ pulse' = IF pulse = "none" /\ main_pc = "select" /\ run_future = "wait_for_low"
                THEN "low"
                ELSE pulse
    /\ UNCHANGED <<emu, update_pin_calls, overflow_checks, buffer, last, pre, main_pc, run_future,
                   low_since, now, longest_low, reset_after_low>>

LineRises ==
    /\ UNCHANGED <<game, lib>>
    /\ main_pc # "caller"
    /\ ~panicked
    /\ line = "low"
    /\ line' = "high"
    /\ longest_low' = LongestLow
    /\ woken' = (woken \/ (main_pc = "select" /\ run_future = "wait_for_high"))
    /\ pulse' = IF pulse = "low"
                THEN IF now - fell_at >= minimum_duration THEN "long" ELSE "none"
                ELSE pulse
    /\ UNCHANGED <<emu, update_pin_calls, overflow_checks, buffer, last, pre, main_pc, run_future,
                   low_since, now, fell_at, reset_after_low>>

InitLoop ==
    /\ InitFrom(new)
    /\ NoLib
    /\ main_pc = "loop"
    /\ run_future = "dropped"
    /\ woken = FALSE
    /\ low_since = -1
    /\ line = "high"
    /\ now = 0
    /\ fell_at = 0
    /\ longest_low = 0
    /\ reset_after_low = -1
    /\ pulse = "none"
    /\ NoGame

NextLoop ==
    \/ EnterSelect
    \/ PollRun
    \/ Listen
    \/ RespondToRead
    \/ RespondToWrite
    \/ Tick
    \/ LineFalls
    \/ LineRises

(* game_pure: the methods of GameState called on the Playing state *)

ProcessInput ==
    /\ ~game_state.panicked
    /\ \E input \in Input :
        game_state' = process_input(game_state, input)
    /\ game_last' = [NotCalled EXCEPT !.op = "process_input"]
    /\ game_pre' = game_state
    /\ UNCHANGED <<mcp, lib>>

UpdateScannedPolicyCards ==
    /\ ~game_state.panicked
    /\ \E cards \in CardsSample :
        game_state' = update_scanned_policy_cards(game_state, cards)
    /\ game_last' = [NotCalled EXCEPT !.op = "update_scanned_policy_cards"]
    /\ game_pre' = game_state
    /\ UNCHANGED <<mcp, lib>>

ProcessDeadCharacter ==
    /\ ~game_state.panicked
    /\ \E secret_role \in SecretRole :
        /\ game_state' = process_dead_character(game_state,
                                [secret_role |-> secret_role, id |-> 0])
        /\ game_last' = [NotCalled EXCEPT !.op = "process_dead_character",
                                          !.role = secret_role]
    /\ game_pre' = game_state
    /\ UNCHANGED <<mcp, lib>>

BleConnected ==
    /\ ~game_state.panicked
    /\ game_state' = ble_connected(game_state)
    /\ game_last' = [NotCalled EXCEPT !.op = "ble_connected"]
    /\ game_pre' = game_state
    /\ UNCHANGED <<mcp, lib>>

BleDisconnected ==
    /\ ~game_state.panicked
    /\ game_state' = ble_disconnected(game_state)
    /\ game_last' = [NotCalled EXCEPT !.op = "ble_disconnected"]
    /\ game_pre' = game_state
    /\ UNCHANGED <<mcp, lib>>

BlePeripheralFound ==
    /\ ~game_state.panicked
    /\ game_state' = ble_peripheral_found(game_state, AddressOfBoard)
    /\ game_last' = [NotCalled EXCEPT !.op = "ble_peripheral_found"]
    /\ game_pre' = game_state
    /\ UNCHANGED <<mcp, lib>>

\* The game starts with the connection in either state.
InitGame ==
    /\ InitFrom(new)
    /\ NoDriver
    /\ NoLib
    /\ \E state \in ConnectState :
        game_state = GameStatePlaying([peripheral_address |-> AddressOfBoard,
                                       state |-> state])
    /\ game_last = NotCalled
    /\ game_pre = game_state

NextGame ==
    \/ ProcessInput
    \/ UpdateScannedPolicyCards
    \/ ProcessDeadCharacter
    \/ BleConnected
    \/ BleDisconnected
    \/ BlePeripheralFound

(* game_pure: the methods of GameState called on the SettingUp state.  The
   Bluetooth task calls ble_peripheral_found while ble_action() is Scan, and
   ble_connected / ble_disconnected while it maintains a connection. *)

SetupProcessInput ==
    /\ IsSettingUp(game_state)
    /\ ~game_state.panicked
    /\ \E input \in Input :
        /\ game_state' = process_input_SettingUp(game_state, input)
        /\ game_last' = [NotCalled EXCEPT !.op = "process_input", !.role = input]
    /\ game_pre' = game_state
    /\ UNCHANGED <<mcp, lib>>

SetupBlePeripheralFound ==
    /\ IsSettingUp(game_state)
    /\ ~game_state.panicked
    /\ ble_action_SettingUp(game_state) = "Scan"
    /\ \E address \in BoardAddresses :
        game_state' = ble_peripheral_found_SettingUp(game_state, address)
    /\ game_last' = [NotCalled EXCEPT !.op = "ble_peripheral_found"]
    /\ game_pre' = game_state
    /\ UNCHANGED <<mcp, lib>>

SetupBleConnection ==
    /\ IsSettingUp(game_state)
    /\ ~game_state.panicked
    /\ ble_action_SettingUp(game_state) = "MaintainConnection"
    /\ \E connect_state \in ConnectState :
        game_state' = ble_connection_state_SettingUp(game_state, connect_state)
    /\ game_last' = [NotCalled EXCEPT !.op = "ble_connected"]
    /\ game_pre' = game_state
    /\ UNCHANGED <<mcp, lib>>

\* GameState::new(None), or with a stored address to connect to
InitSetup ==
    /\ InitFrom(new)
    /\ NoDriver
    /\ NoLib
    /\ \E peripheral_address \in {<<>>} \cup {<<address>> : address \in BoardAddresses} :
        game_state = GameState_new(peripheral_address)
    /\ game_last = NotCalled
    /\ game_pre = game_state

NextSetup ==
    \/ SetupProcessInput
    \/ SetupBlePeripheralFound
    \/ SetupBleConnection

(* Debouncer::process_data, called with the level of the input and
   Instant::now(), which never goes back. *)

ProcessData ==
    /\ debounce_last.crate = "code"
    /\ \E latest_data \in Level, instant_now \in debounce_last.now .. MaxInstant :
        LET result == process_data(debouncer, latest_data, instant_now)
        IN /\ debouncer' = result.self
           /\ debounce_last' = [debounce_last EXCEPT !.op = "process_data",
                                                     !.latest_data = latest_data,
                                                     !.now = instant_now,
                                                     !.changed = result.returned]
           /\ observed' = Observe(observed, latest_data, instant_now)
    /\ debounce_pre' = debouncer
    /\ UNCHANGED <<mcp, game, shared_spi>>

Stm32ProcessData ==
    /\ debounce_last.crate = "stm32_code"
    /\ \E latest_data \in Level, instant_now \in debounce_last.now .. MaxInstant :
        LET result == stm32_process_data(debouncer, latest_data, instant_now)
        IN /\ debouncer' = result.self
           /\ debounce_last' = [debounce_last EXCEPT !.op = "process_data",
                                                     !.latest_data = latest_data,
                                                     !.now = instant_now,
                                                     !.changed = result.returned # <<>>]
           /\ observed' = Observe(observed, latest_data, instant_now)
    /\ debounce_pre' = debouncer
    /\ UNCHANGED <<mcp, game, shared_spi>>

\* Debouncer::new(switch.level(), debounce_time) or Debouncer::new(debounce_time)
InitDebounce ==
    /\ InitFrom(new)
    /\ NoDriver
    /\ NoGame
    /\ \E debounce_time \in DebounceTimes :
        \/ /\ \E initial_value \in Level :
                debouncer = Debouncer_new(initial_value, debounce_time)
           /\ debounce_last = NotProcessed("code")
        \/ /\ debouncer = stm32_Debouncer_new(debounce_time)
           /\ debounce_last = NotProcessed("stm32_code")
    /\ debounce_pre = debouncer
    /\ observed = <<>>
    /\ NoSpi("lazy_shared_spi")

NextDebounce ==
    \/ ProcessData
    \/ Stm32ProcessData

(* The tasks of the devices of one LazySharedSpi.  A transaction holds the
   Mutex from `self.inner.lock().await` until it returns. *)

\* self.inner.lock().await
Lock ==
    /\ spi_mutex = 0
    /\ \E device \in Devices :
        /\ spi_pc[device] = "idle"
        /\ spi_mutex' = device
        /\ spi_pc' = [spi_pc EXCEPT ![device] = "locked"]
    /\ UNCHANGED <<spi_inner, cs_pins, spi_history, mcp, game, debounce>>

\* set_config and the match on active_cs; an Err returns and drops the guard
SelectChip ==
    /\ \E device \in Devices, ok \in PinResults :
        /\ spi_pc[device] = "locked"
        /\ LET selected == IF spi_history.crate = "lazy_shared_spi"
                           THEN select_chip(spi_inner, device, ok)
                           ELSE select_chip_2(spi_inner, device, ok)
           IN /\ spi_inner' = selected.inner
              /\ cs_pins' = Carried(cs_pins, selected.commands)
              /\ spi_history' =
                    [spi_history EXCEPT
                        !.driven_low = LastDrivenLow(@, selected.commands),
                        !.result = selected.result]
              /\ IF selected.result = "Ok"
                 THEN /\ spi_pc' = [spi_pc EXCEPT ![device] = "operations"]
                      /\ UNCHANGED spi_mutex
                 ELSE /\ spi_pc' = [spi_pc EXCEPT ![device] = "idle"]
                      /\ spi_mutex' = 0
    /\ UNCHANGED <<mcp, game, debounce>>

\* the operations on the bus and the flush, then the return
Operations ==
    /\ \E device \in Devices, result \in {"Ok", "Err"} :
        /\ spi_pc[device] = "operations"
        /\ spi_pc' = [spi_pc EXCEPT ![device] = "idle"]
        /\ spi_history' = [spi_history EXCEPT !.result = result]
    /\ spi_mutex' = 0
    /\ UNCHANGED <<spi_inner, cs_pins, mcp, game, debounce>>

InitSpi ==
    /\ InitFrom(new)
    /\ NoDriver
    /\ NoGame
    /\ NoDebounce
    /\ \E crate \in {"lazy_shared_spi", "lazy_shared_spi_2"} : NoSpi(crate)

NextSpi ==
    \/ Lock
    \/ SelectChip
    \/ Operations

Next ==
    \/ ProcessWriteTransaction(AddressSample)
    \/ PrepareReadBuffer
    \/ ConfirmBytesRead
    \/ Reset
    \/ Return

NextFields ==
    \/ ProcessWriteTransaction(FieldsAddressSample)
    \/ PrepareReadBuffer
    \/ ConfirmBytesRead
    \/ Reset
    \/ Return

Spec == Init /\ [][Next]_vars

SpecFields == InitFields /\ [][NextFields]_vars

SpecLoop == InitLoop /\ [][NextLoop]_vars

SpecGame == InitGame /\ [][NextGame]_vars

SpecSetup == InitSetup /\ [][NextSetup]_vars

SpecDebounce == InitDebounce /\ [][NextDebounce]_vars

SpecSpi == InitSpi /\ [][NextSpi]_vars

-----------------------------------------------------------------------------
(* Vocabulary of the properties *)

RECURSIVE Times(_, _, _)
\* advance_address applied n times in one mode
Times(address, mode, n) ==
    IF n = 0 THEN address ELSE Times(advance_address(address, mode), mode, n - 1)

ValidAddresses == 0 .. (RegisterType_COUNT * AB_COUNT - 1)

\* the registers the specification gives read and write behaviour
Implemented == {"IODIR", "GPPU", "GPIO", "OLAT"}

AllLow == [i \in Pins |-> FALSE]

\* the registers the specification calls unimplemented
Unimplemented == {"IPOL", "GPINTEN", "DEFVAL", "INTCON", "IOCON", "INTF", "INTCAP"}

NoUpdatePinCalls == \A p \in Pins : update_pin_calls[p] = 0

\* The output latch the specification speaks of.  The struct has no such field
\* and no call stores one (a write to GPIO or OLAT is todo!()), so the only
\* latch value a run can hold is the power-on one, Low.
output_latch(self, pin_index) == FALSE

\* the byte a register holds, bit i for pin i of its bank
StoredByte(self, register) ==
    LET pin(i) == i + set_index(register.ab) * N_GPIO_PINS_PER_SET
    IN OrBits([i \in 0 .. (N_GPIO_PINS_PER_SET - 1) |->
                 CASE register.type = "IODIR" -> self.io_directions[pin(i)] = "Input"
                   [] register.type = "GPPU" -> self.pull_up_enabled[pin(i)]
                   [] OTHER -> output_latch(self, pin(i))],
              N_GPIO_PINS_PER_SET)

PowerOnDefaults ==
    /\ \A i \in Pins :
        /\ io_directions[i] = "Input"
        /\ ~pull_up_enabled[i]
        /\ gpio_pins[i] = [mode |-> "Input", pull |-> "None"]
    /\ selected_address = 0
    /\ ~bank_mode
    /\ ~sequential_mode

SameFields(self, other) ==
    /\ self.selected_address = other.selected_address
    /\ self.bank_mode = other.bank_mode
    /\ self.sequential_mode = other.sequential_mode
    /\ self.io_directions = other.io_directions
    /\ self.pull_up_enabled = other.pull_up_enabled
    /\ self.gpio_pins = other.gpio_pins

-----------------------------------------------------------------------------
(* C1 *)

\* C1 as stated: in every reachable state selected_address is within 0..21.
\* Refuted: the first byte of a write becomes the pointer whatever it is.
C1_AddressAlwaysValid == selected_address \in ValidAddresses

\* C1, amended: selected_address is always a u8, and it leaves 0..21 only by
\* a write transaction whose first byte is above 21: no value byte of a write
\* that starts inside, no prepare_read_buffer, no confirm_bytes_read and no
\* reset takes the pointer from inside 0..21 to outside.
C1_AddressLeavesRangeOnlyByWrite ==
    /\ [](selected_address \in 0 .. U8_MAX)
    /\ [][(selected_address \in ValidAddresses /\ selected_address' \notin ValidAddresses)
            => (last'.op = "write" /\ Head(last'.bytes) \notin ValidAddresses)]_vars

C1_Witness ==
    /\ last.op = "confirm"
    /\ last.n = 3
    /\ pre.selected_address = 21
    /\ selected_address = 20

-----------------------------------------------------------------------------
(* C2 *)

\* C2: after any sequence of calls, reset() leaves every pin Input and without
\* pull-up (in the fields and in what was pushed to the pin), the pointer at 0
\* and both mode flags false.  The struct holds no output latch to reset.
C2_ResetRestoresDefaults == last.op = "reset" => PowerOnDefaults

C2_Witness ==
    /\ last.op = "reset"
    /\ pre.selected_address = 13
    /\ pre.io_directions[0] = "Output"
    /\ pre.pull_up_enabled[9]
    /\ PowerOnDefaults

-----------------------------------------------------------------------------
(* C3 *)

\* C3: prepare_read_buffer on a buffer of length L followed by
\* confirm_bytes_read(n), n < L, leaves the pointer where n applications of
\* the advance function take the pointer held before the prepare.
C3_ConfirmAdvancesByBytesRead ==
    (last.op = "confirm" /\ last.len >= 0 /\ last.n < last.len)
        => /\ ~panicked
           /\ selected_address =
                Times(pre.selected_address, advance_address_mode(pre), last.n)

C3_Witness ==
    /\ last.op = "confirm"
    /\ last.len = 3
    /\ last.n = 1
    /\ pre.selected_address = 12
    /\ selected_address = 13

-----------------------------------------------------------------------------
(* C4 *)

\* C4: prepare_read_buffer changes no field of the emulator and re-configures
\* no pin; only the caller's buffer is written.
C4_PrepareChangesNoField == last.op = "prepare" => SameFields(Self, pre)

C4_Witness ==
    /\ last.op = "prepare"
    /\ last.len = 2
    /\ ~panicked
    /\ pre.selected_address = 12
    /\ buffer = <<170, 15>>
    /\ SameFields(Self, pre)

-----------------------------------------------------------------------------
(* C5 *)

\* C5 as stated: with both flags false, a write [a, v1, v2] whose a is the
\* bank-A address of IODIR, GPPU, GPIO or OLAT completes and leaves v1 in that
\* register of bank A and v2 in the same register of bank B.
\* Refuted by the code: a value byte for GPIO or OLAT reaches todo!().
C5_WritePairGoesToBothBanks ==
    (/\ last.op = "write"
     /\ Len(last.bytes) = 3
     /\ ~pre.bank_mode /\ ~pre.sequential_mode
     /\ last.bytes[1] % 2 = 0
     /\ register_from_addr(last.bytes[1], FALSE).type \in Implemented)
        => LET type == register_from_addr(last.bytes[1], FALSE).type
           IN /\ ~panicked
              /\ StoredByte(Self, [ab |-> "A", type |-> type]) = last.bytes[2]
              /\ StoredByte(Self, [ab |-> "B", type |-> type]) = last.bytes[3]

-----------------------------------------------------------------------------
(* C6 *)

-----------------------------------------------------------------------------
(* C7 *)

-----------------------------------------------------------------------------
(* C8 *)

\* C8: a byte written to IODIR or GPPU of a bank is the byte read back from
\* that register: after a write transaction with one value byte, and for every
\* byte 0..255 written by write_register in an idle state (write_register and
\* read_register do not read the pointer, so the states with the pointer at 0
\* stand for the others).
C8_WriteThenReadRoundTrip ==
    /\ (/\ last.op = "write"
        /\ Len(last.bytes) = 2
        /\ register_from_addr(last.bytes[1], pre.bank_mode).type \in {"IODIR", "GPPU"})
            => /\ ~panicked
               /\ read_register(Self, register_from_addr(last.bytes[1], pre.bank_mode),
                                AllLow).value = last.bytes[2]
    /\ (last.op = "idle" /\ selected_address = 0)
            => \A v \in 0 .. U8_MAX, ab \in {"A", "B"}, type \in {"IODIR", "GPPU"} :
                 LET register == [ab |-> ab, type |-> type]
                 IN read_register(write_register(Self, register, v), register,
                                  AllLow).value = v

C8_Witness ==
    /\ last.op = "write"
    /\ last.bytes = <<13, 15>>
    /\ pre.pull_up_enabled[8] = FALSE
    /\ read_register(Self, [ab |-> "B", type |-> "GPPU"], AllLow).value = 15

-----------------------------------------------------------------------------
(* C9 *)

\* C9 as stated: a read of GPIO returns, for each pin of the bank, the stored
\* output latch if the pin is Output and the pin's is_high() if it is Input.
\* Refuted by the code: read_register returns is_high() for every pin.
C9_GpioReadsLatchOfOutputs ==
    (/\ last.op = "prepare"
     /\ last.len >= 1
     /\ ~panicked
     /\ register_from_addr(pre.selected_address, pre.bank_mode).type = "GPIO")
        => LET ab == register_from_addr(pre.selected_address, pre.bank_mode).ab
               pin(i) == i + set_index(ab) * N_GPIO_PINS_PER_SET
           IN \A i \in 0 .. (N_GPIO_PINS_PER_SET - 1) :
                BitSet(buffer[1], i) =
                    IF io_directions[pin(i)] = "Output"
                    THEN output_latch(Self, pin(i))
                    ELSE Levels(last.levels)[pin(i)]

-----------------------------------------------------------------------------
(* C10 *)

\* C10 as stated: run() calls reset() only after the reset line has been low
\* for at least the minimum duration; no shorter low pulse resets anything.
\* Refuted by the code: low_since outlives the run() future, and what is
\* measured is the time between two polls, not the time the line was low.
C10_ShortPulseNeverResets ==
    reset_after_low = -1 \/ reset_after_low >= minimum_duration

-----------------------------------------------------------------------------
(* C11 *)

\* a one-byte write to a new emulator, for every byte: only the pointer moves
EveryAddressByteIsStored ==
    \A a \in 0 .. U8_MAX :
        process_write_transaction(new, <<a>>) = [new EXCEPT !.selected_address = a]

\* C11: process_write_transaction of an empty slice changes nothing; of a
\* one-byte slice [a] it sets selected_address to a, for every a in 0..255, and
\* changes nothing else: no field, no pin, no update_pin call, no advance.
C11_AddressByteOnlyMovesPointer ==
    /\ (last.op = "write" /\ last.bytes = <<>>)
            => (SameFields(Self, pre) /\ NoUpdatePinCalls /\ ~panicked)
    /\ (last.op = "write" /\ Len(last.bytes) = 1)
            => /\ SameFields(Self, [pre EXCEPT !.selected_address = last.bytes[1]])
               /\ NoUpdatePinCalls
               /\ ~panicked
    /\ EveryAddressByteIsStored

C11_Witness ==
    /\ last.op = "write"
    /\ last.bytes = <<255>>
    /\ pre.selected_address = 13
    /\ pre.io_directions[0] = "Output"
    /\ selected_address = 255
    /\ io_directions[0] = "Output"

-----------------------------------------------------------------------------
(* C12 *)

\* the write's value bytes all met an address without a register
OnlyInvalidAddresses(address, self, n) ==
    \A k \in 0 .. (n - 1) :
        LET at == Times(address, advance_address_mode(self), k)
        IN at <= U8_MAX /\ register_from_addr(at, self.bank_mode).type = None

\* C12: a value byte processed while selected_address resolves to no register
\* is dropped without a panic: no direction, pull-up or pin mode changes, no
\* update_pin call is made, and the pointer is advanced once per byte in the
\* current mode.
C12_InvalidAddressSkipsByteAndAdvances ==
    (/\ last.op = "write"
     /\ Len(last.bytes) >= 2
     /\ OnlyInvalidAddresses(last.bytes[1], pre, Len(last.bytes) - 1))
        => /\ ~panicked
           /\ SameFields(Self, [pre EXCEPT !.selected_address =
                    Times(last.bytes[1], advance_address_mode(pre), Len(last.bytes) - 1)])
           /\ NoUpdatePinCalls

C12_Witness ==
    /\ last.op = "write"
    /\ last.bytes = <<22, 15>>
    /\ pre.selected_address = 0
    /\ pre.pull_up_enabled[0]
    /\ ~panicked
    /\ selected_address = 23
    /\ pull_up_enabled[0]

-----------------------------------------------------------------------------
(* C13 *)

\* C13: a value byte written to, or a byte read from, an address that resolves
\* to IPOL, GPINTEN, DEFVAL, INTCON, IOCON, INTF or INTCAP ends in the fatal
\* outcome (todo!() panics): in the calls of the run, and for each of these
\* registers of either bank from whatever state the emulator is in.
C13_UnimplementedRegisterIsFatal ==
    /\ (/\ last.op = "write"
        /\ Len(last.bytes) >= 2
        /\ register_from_addr(last.bytes[1], pre.bank_mode).type \in Unimplemented)
            => panicked
    /\ (/\ last.op = "prepare"
        /\ last.len >= 1
        /\ register_from_addr(pre.selected_address, pre.bank_mode).type \in Unimplemented)
            => panicked
    /\ \A type \in Unimplemented, ab \in {"A", "B"}, value \in ValueSample :
        /\ write_register(Self, [ab |-> ab, type |-> type], value).panicked
        /\ read_register(Self, [ab |-> ab, type |-> type], AllLow).panicked

C13_Witness ==
    /\ last.op = "prepare"
    /\ last.len = 2
    /\ pre.selected_address = 5
    /\ register_from_addr(5, pre.bank_mode) = [ab |-> "B", type |-> "GPINTEN"]
    /\ panicked

-----------------------------------------------------------------------------
(* C14 *)

\* C14 as stated: a value byte written to, and a byte read from, an address
\* that resolves to IODIR, GPPU, GPIO or OLAT of either bank completes and
\* never ends in the fatal outcome.
\* Refuted by the code: write_register has no arm for GPIO and OLAT,
\* read_register none for OLAT.
C14_ImplementedRegistersNeverFatal ==
    /\ (/\ last.op = "write"
        /\ Len(last.bytes) = 2
        /\ register_from_addr(last.bytes[1], pre.bank_mode).type \in Implemented)
            => ~panicked
    /\ (/\ last.op = "prepare"
        /\ last.len = 1
        /\ register_from_addr(pre.selected_address, pre.bank_mode).type \in Implemented)
            => ~panicked

-----------------------------------------------------------------------------
(* C15 *)

\* the register the claim gives an address: its type (None from 22 on) and bank
ClaimedRegister(address, bank) ==
    LET index == IF bank
                 THEN IF address < RegisterType_COUNT
                      THEN address
                      ELSE address - RegisterType_COUNT
                 ELSE address \div 2
    IN [type |-> IF address >= RegisterType_COUNT * AB_COUNT
                 THEN None
                 ELSE RegisterType[index + 1],
        ab |-> IF bank
               THEN IF address < RegisterType_COUNT THEN "A" ELSE "B"
               ELSE IF address % 2 = 0 THEN "A" ELSE "B"]

ResolvesAsClaimed(address, bank) ==
    LET register == register_from_addr(address, bank)
        claimed == ClaimedRegister(address, bank)
    IN /\ register.type = claimed.type
       /\ register.type # None => register.ab = claimed.ab

EveryAddressResolvesAsClaimed ==
    \A address \in 0 .. U8_MAX, bank \in BOOLEAN : ResolvesAsClaimed(address, bank)

\* C15: register_from_addr returns, for every address 0..255 and both values of
\* bank_mode: in bank mode (type address, A) below 11 and (type address - 11, B)
\* from 11 to 21; otherwise (type address / 2, A when even, B when odd) below
\* 22; and None exactly from 22 on.  Also for the pointer and flag of each
\* state of the runs.
C15_RegisterTable ==
    /\ EveryAddressResolvesAsClaimed
    /\ ResolvesAsClaimed(selected_address, bank_mode)

C15_Witness ==
    /\ bank_mode
    /\ ~sequential_mode
    /\ last.op = "write"
    /\ last.bytes = <<11, 15>>
    /\ register_from_addr(selected_address, bank_mode) = [ab |-> "B", type |-> "IODIR"]
    /\ io_directions[4 + N_GPIO_PINS_PER_SET] = "Output"
    /\ io_directions[4] = "Input"

-----------------------------------------------------------------------------
(* C16 *)

\* the write was of one value byte to a register of one of these types
WroteOneByteTo(types) ==
    /\ last.op = "write"
    /\ Len(last.bytes) = 2
    /\ register_from_addr(last.bytes[1], pre.bank_mode).type \in types

\* C16 as stated: a write to IODIR, GPPU, GPIO or OLAT calls update_pin (the
\* pin's configure) on pin p if and only if p's stored direction, pull-up or
\* latch after the write differs from before it.
\* Refuted by the code for GPIO and OLAT: the write panics before any pin is
\* looked at.
C16_UpdatePinExactlyForChangedPins ==
    WroteOneByteTo(Implemented)
        => /\ ~panicked
           /\ \A p \in Pins :
                (update_pin_calls[p] > 0) <=>
                    \/ io_directions[p] # pre.io_directions[p]
                    \/ pull_up_enabled[p] # pre.pull_up_enabled[p]
                    \/ output_latch(Self, p) # output_latch(pre, p)

-----------------------------------------------------------------------------
(* C17 *)

\* C17 as stated: what was last pushed to each pin is what its stored
\* direction and pull-up flag give: an Input pin whose pull-up flag is set is
\* configured as Input with pull-up.
\* Refuted by the code: Mcp23017::update_pin passes `false` for pull_up.
C17_PinsConfiguredAsStored ==
    \A p \in Pins :
        gpio_pins[p] = Mcp23017Gpio_update_pin(io_directions[p], pull_up_enabled[p])

-----------------------------------------------------------------------------
(* C18 *)

\* C18 as stated: an IODIR or GPPU write leaves every latch as it was; a GPIO
\* or OLAT write stores bit i of the byte as the latch of pin i of its bank,
\* also for a pin that is Input.
\* Refuted by the code: a GPIO or OLAT write panics and no latch is stored.
C18_LatchFollowsGpioWritesOnly ==
    /\ WroteOneByteTo({"IODIR", "GPPU"})
        => \A p \in Pins : output_latch(Self, p) = output_latch(pre, p)
    /\ WroteOneByteTo({"GPIO", "OLAT"})
        => /\ ~panicked
           /\ LET ab == register_from_addr(last.bytes[1], pre.bank_mode).ab
              IN \A i \in 0 .. (N_GPIO_PINS_PER_SET - 1) :
                    output_latch(Self, i + set_index(ab) * N_GPIO_PINS_PER_SET)
                        = BitSet(last.bytes[2], i)

-----------------------------------------------------------------------------
(* C19 *)

\* C19 as stated: writing a byte to GPIO of a bank gives the state and the
\* update_pin calls that writing it to OLAT of that bank gives, and bit i of
\* the byte is then the latch of pin i of the bank.
\* Refuted by the code: both writes panic.
C19_GpioWriteIsOlatWrite ==
    WroteOneByteTo({"GPIO"})
        => LET ab == register_from_addr(last.bytes[1], pre.bank_mode).ab
               olat == write_register(pre, [ab |-> ab, type |-> "OLAT"], last.bytes[2])
           IN /\ ~panicked
              /\ ~olat.panicked
              /\ io_directions = olat.io_directions
              /\ pull_up_enabled = olat.pull_up_enabled
              /\ gpio_pins = olat.gpio_pins
              /\ update_pin_calls = olat.update_pin_calls
              /\ StoredByte(Self, [ab |-> ab, type |-> "OLAT"]) = last.bytes[2]

-----------------------------------------------------------------------------
(* C20 *)

\* C20: reset() calls update_pin exactly once on each of the 16 pins, pins
\* that were at the defaults included, and leaves each configured as an Input
\* without pull-up; so does the reset() that Mcp23017::new makes.
C20_ResetConfiguresEveryPinOnce ==
    /\ last.op = "reset"
        => \A p \in Pins :
            /\ update_pin_calls[p] = 1
            /\ gpio_pins[p] = [mode |-> "Input", pull |-> "None"]
    /\ \A p \in Pins :
        /\ new.update_pin_calls[p] = 1
        /\ new.gpio_pins[p] = [mode |-> "Input", pull |-> "None"]

C20_Witness ==
    /\ last.op = "reset"
    /\ pre.io_directions[0] = "Input"
    /\ ~pre.pull_up_enabled[0]
    /\ pre.io_directions[4] = "Output"
    /\ pre.pull_up_enabled[9]
    /\ update_pin_calls[0] = 1
    /\ update_pin_calls[4] = 1
    /\ update_pin_calls[9] = 1

-----------------------------------------------------------------------------
(* C23 *)

\* C23 as stated: confirm_bytes_read(n) after a prepare_read_buffer of length
\* L leaves the pointer within L steps of where it was, for every n.
\* Refuted by the code: the loop of confirm_bytes_read runs n times whatever
\* the prepared length was.
C23_ConfirmBoundedByPreparedLength ==
    (last.op = "confirm" /\ last.len >= 0 /\ ~panicked)
        => \E steps \in 0 .. last.len :
              selected_address =
                Times(pre.selected_address, advance_address_mode(pre), steps)

-----------------------------------------------------------------------------
(* C24 *)

\* C24: in every state reached through the public methods from
\* Mcp23017::new, bank_mode and sequential_mode are false, and a call that
\* returns leaves both flags as they were before it.
C24_FlagsStayFalse ==
    /\ ~bank_mode
    /\ ~sequential_mode
    /\ (last.op # "idle" /\ ~panicked)
          => /\ bank_mode = pre.bank_mode
             /\ sequential_mode = pre.sequential_mode

C24_Witness ==
    /\ last.op = "write"
    /\ last.bytes = <<0, 170, 15>>
    /\ ~panicked
    /\ ~bank_mode
    /\ ~sequential_mode
    /\ io_directions[0] = "Output"
    /\ io_directions[N_GPIO_PINS_PER_SET + 4] = "Output"

-----------------------------------------------------------------------------
(* C28 *)

\* the bank the claim calls X, as a number: 0 for A, 1 for B
BankNumber(ab) == IF ab = "A" THEN 0 ELSE 1

\* bits 0..7 of v as the directions of the 8 pins of bank x
DirectionOfBit(v, i) == IF BitSet(v, i) THEN "Input" ELSE "Output"

\* C28: a write of byte v to IODIR of bank X sets pin 8*X+i to Input if bit i
\* of v is 1 and to Output if it is 0, and leaves the other bank's directions,
\* all 16 pull-up flags and the mode flags unchanged; a write to GPPU does the
\* same with pull-up flags and directions exchanged.
C28_DirectionAndPullUpWriteFrame ==
    LET register == register_from_addr(last.bytes[1], pre.bank_mode)
        x == BankNumber(register.ab)
        v == last.bytes[2]
        other == {p \in Pins : p \div N_GPIO_PINS_PER_SET # x}
    IN /\ WroteOneByteTo({"IODIR"})
            => /\ ~panicked
               /\ \A i \in 0 .. (N_GPIO_PINS_PER_SET - 1) :
                     io_directions[N_GPIO_PINS_PER_SET * x + i] = DirectionOfBit(v, i)
               /\ \A p \in other : io_directions[p] = pre.io_directions[p]
               /\ pull_up_enabled = pre.pull_up_enabled
               /\ bank_mode = pre.bank_mode
               /\ sequential_mode = pre.sequential_mode
       /\ WroteOneByteTo({"GPPU"})
            => /\ ~panicked
               /\ \A i \in 0 .. (N_GPIO_PINS_PER_SET - 1) :
                     pull_up_enabled[N_GPIO_PINS_PER_SET * x + i] = BitSet(v, i)
               /\ \A p \in other : pull_up_enabled[p] = pre.pull_up_enabled[p]
               /\ io_directions = pre.io_directions
               /\ bank_mode = pre.bank_mode
               /\ sequential_mode = pre.sequential_mode

C28_Witness ==
    /\ last.op = "write"
    /\ last.bytes = <<1, 170>>
    /\ pre.io_directions[4] = "Output"
    /\ pre.pull_up_enabled[1] = TRUE
    /\ io_directions[4] = "Output"
    /\ io_directions[N_GPIO_PINS_PER_SET] = "Output"
    /\ io_directions[N_GPIO_PINS_PER_SET + 1] = "Input"
    /\ pull_up_enabled[1] = TRUE

-----------------------------------------------------------------------------
(* C29 *)

TogglesWithinPair(a) ==
    LET flipped == advance_address(a, "Toggle")
    IN /\ flipped # a
       /\ flipped \div 2 = a \div 2
       /\ register_from_addr(flipped, FALSE).type = register_from_addr(a, FALSE).type
       /\ register_from_addr(flipped, FALSE).ab # register_from_addr(a, FALSE).ab
       /\ advance_address(flipped, "Toggle") = a

EveryValidAddressToggles == \A a \in ValidAddresses : TogglesWithinPair(a)

\* C29: in Toggle mode advance_address takes every address a of 0..21 to a
\* different address of the same pair (a' / 2 = a / 2: same register type,
\* other bank), and twice applied returns a.  Also for the pointer of the
\* runs: one confirmed byte moves it to the other address of its pair, two
\* bring it back.
C29_ToggleFlipsWithinPair ==
    /\ EveryValidAddressToggles
    /\ (/\ last.op = "confirm"
        /\ ~panicked
        /\ advance_address_mode(pre) = "Toggle"
        /\ pre.selected_address \in ValidAddresses)
          => /\ last.n = 1 => /\ selected_address # pre.selected_address
                              /\ selected_address \div 2 = pre.selected_address \div 2
             /\ last.n = 2 => selected_address = pre.selected_address

C29_Witness ==
    /\ last.op = "confirm"
    /\ last.n = 2
    /\ advance_address_mode(pre) = "Toggle"
    /\ pre.selected_address = 13
    /\ selected_address = 13

-----------------------------------------------------------------------------
(* C21 *)

\* the fields of `self` other than the register pointer are those of `other`
SameConfiguration(self, other) ==
    /\ self.bank_mode = other.bank_mode
    /\ self.sequential_mode = other.sequential_mode
    /\ self.io_directions = other.io_directions
    /\ self.pull_up_enabled = other.pull_up_enabled
    /\ self.gpio_pins = other.gpio_pins

\* C21: in main's loop reset() never executes while a bus transaction is
\* handled.  Between the prepare_read_buffer and its confirm_bytes_read no
\* field changes, and the confirm moves only the pointer; a write transaction
\* leaves the emulator as process_write_transaction alone makes it from the
\* state the select returned in; and a reset() called by run() shows only
\* while the loop is in its select.
C21_NoResetDuringTransaction ==
    /\ main_pc = "respond_read" => (last.op = "prepare" /\ SameFields(Self, pre))
    /\ (main_pc = "loop" /\ last.op = "unconfirmed") => SameFields(Self, pre)
    /\ (main_pc = "loop" /\ last.op = "confirm" /\ ~panicked)
          => /\ SameConfiguration(Self, pre)
             /\ selected_address =
                  Times(pre.selected_address, advance_address_mode(pre), last.n)
    /\ (main_pc = "loop" /\ last.op = "write")
          => LET written == process_write_transaction(pre, last.bytes)
             IN /\ SameFields(Self, written)
                /\ panicked = written.panicked
    /\ last.op = "run_reset" => main_pc = "select"

\* a read was answered while the reset line was held low for the minimum
\* duration, with the monitor having recorded the fall: the configuration
\* written before is still there
C21_Witness ==
    /\ main_pc = "loop"
    /\ last.op = "confirm"
    /\ last.n = 1
    /\ line = "low"
    /\ low_since # -1
    /\ now - low_since >= minimum_duration
    /\ io_directions[0] = "Output"

-----------------------------------------------------------------------------
(* C22 *)

\* C22 as stated: when the run() future has been dropped by select, the
\* monitor holds no recorded low instant for the next run() to start from.
\* Refuted by the code: low_since is a field of ResetPin, not of the future.
C22_ReentryStartsWithoutLowInstant == run_future = "dropped" => low_since = -1

-----------------------------------------------------------------------------
(* C30 *)

\* C30 as stated, in the form a finite run refutes: when run() is parked at
\* wait_for_low with no edge pending and the line high, no pulse that began
\* while run() was waiting and lasted at least minimum_duration is still
\* without its reset().
\* Refuted by the code: low_since is Instant::now() of the poll after the
\* falling edge, not the instant of the edge.
C30_LongPulseResets ==
    (main_pc = "select" /\ run_future = "wait_for_low" /\ ~woken /\ line = "high")
        => pulse # "long"

-----------------------------------------------------------------------------
(* C25 *)

\* a Playing state of a game of `players` players with `placed` fascist
\* policies on the board
PlayingWith(players, placed, pending) ==
    [GameStatePlaying([peripheral_address |-> AddressOfBoard, state |-> "Connected"])
        EXCEPT !.players = players,
               !.fascist_policies_placed = placed,
               !.pending_action = pending]

\* a scan raises the fascist policies from `placed` to n: the action of n, if
\* there is one, is the hint; a button clears every hint but Kill, which a dead
\* character clears
HintShownThenCleared(players, placed, pending, liberal, n) ==
    LET scanned == update_scanned_policy_cards(PlayingWith(players, placed, pending),
                                               DetectedPolicyCards(liberal, n, FALSE))
        action == latest_action(players, n)
    IN action # None
        => /\ display_action_hint(scanned) = action
           /\ \A input \in Input :
                LET pressed == process_input(scanned, input)
                IN /\ ~pressed.panicked
                   /\ action \in {"CheckParty", "ChooseNextPresident", "ExamineTop3"}
                        => display_action_hint(pressed) = None
                   /\ action = "Kill"
                        => /\ display_action_hint(pressed) = "Kill"
                           /\ \A secret_role \in SecretRole :
                                display_action_hint(
                                    process_dead_character(
                                        pressed, [secret_role |-> secret_role, id |-> 0]))
                                  = None

EveryHintShownThenCleared ==
    \A players \in 5 .. 10, n \in 1 .. MaxFascistScanned, pending \in BOOLEAN,
       liberal \in 0 .. LIBERAL_POLICY_CARDS :
        \A placed \in 0 .. (n - 1) :
            HintShownThenCleared(players, placed, pending, liberal, n)

\* C25: when update_scanned_policy_cards raises the fascist policy count to n
\* and latest_action(players, n) is an action, display_action_hint returns it; a
\* button input clears a CheckParty, ChooseNextPresident or ExamineTop3 hint and
\* leaves a Kill hint, which process_dead_character clears.  For every player
\* count of 5..10, and for every call made in the runs of the game.
C25_HintShownThenCleared ==
    /\ EveryHintShownThenCleared
    /\ (/\ game_last.op = "update_scanned_policy_cards"
        /\ game_state.fascist_policies_placed > game_pre.fascist_policies_placed
        /\ latest_action(game_state.players, game_state.fascist_policies_placed) # None)
          => display_action_hint(game_state)
                = latest_action(game_state.players, game_state.fascist_policies_placed)
    /\ (/\ game_last.op = "process_input"
        /\ display_action_hint(game_pre) # None)
          => /\ ~game_state.panicked
             /\ display_action_hint(game_state) =
                  IF display_action_hint(game_pre) = "Kill" THEN "Kill" ELSE None
    /\ (/\ game_last.op = "process_dead_character"
        /\ display_action_hint(game_pre) = "Kill")
          => display_action_hint(game_state) = None

C25_Witness ==
    /\ game_last.op = "process_input"
    /\ game_pre.fascist_policies_placed = 4
    /\ display_action_hint(game_pre) = "Kill"
    /\ display_action_hint(game_state) = "Kill"

-----------------------------------------------------------------------------
(* C26 *)

\* C26 as stated: when update_scanned_policy_cards reports fewer fascist policy
\* cards than the scan before, a hint that was displayed, a Kill hint
\* included, is dismissed.
\* Refuted by the code: pending_action is changed only when a count rises.
C26_RemovedFascistCardDismissesHint ==
    (/\ game_last.op = "update_scanned_policy_cards"
     /\ game_state.fascist_policies_placed < game_pre.fascist_policies_placed
     /\ display_action_hint(game_pre) # None)
        => display_action_hint(game_state) = None

-----------------------------------------------------------------------------
(* C27 *)

\* the aura the claim gives a Playing state
ClaimedAura(state) ==
    CASE \/ state.hitler_state = "ElectedChancellor"
         \/ /\ state.hitler_state = "Secret"
            /\ state.fascist_policies_placed = 6
            /\ state.liberal_policies_placed < 5 -> "FascistWin"
      [] \/ state.hitler_state = "Dead"
         \/ /\ state.hitler_state = "Secret"
            /\ state.liberal_policies_placed = 5 -> "LiberalWin"
      [] OTHER -> "BoardSpecific"

\* C27 as stated: get_leds reports aura FascistWin exactly when Hitler was
\* elected chancellor or is secret with 6 fascist and fewer than 5 liberal
\* policies placed, LiberalWin exactly when Hitler is dead or is secret with 5
\* liberal policies placed, BoardSpecific otherwise; and the sixth fascist
\* policy placed with Hitler secret (and the liberal board not full) gives
\* FascistWin.
\* Refuted by the code: winner() compares the liberal count for equality with
\* LIBERAL_BOARD_SLOTS, and six liberal policy cards can be scanned.
C27_AuraShowsWinner ==
    /\ get_leds(game_state).aura_led_color = ClaimedAura(game_state)
    /\ (/\ game_last.op = "update_scanned_policy_cards"
        /\ game_pre.fascist_policies_placed < 6
        /\ game_state.fascist_policies_placed = 6
        /\ game_state.liberal_policies_placed < 5
        /\ game_state.hitler_state = "Secret")
          => get_leds(game_state).aura_led_color = "FascistWin"

-----------------------------------------------------------------------------
(* C31 *)

\* C31 as stated: after a read transaction of the loop in which the transport
\* reported n bytes transmitted, the pointer is where n applications of the
\* advance function take the pointer held before the transaction.
\* Refuted by the code: main skips confirm_bytes_read when n is larger than its
\* buffer.
C31_ReadTransactionAdvancesByTransmitted ==
    (/\ main_pc = "loop"
     /\ last.op \in {"confirm", "unconfirmed"}
     /\ last.n >= 0
     /\ ~panicked)
        => selected_address =
             Times(pre.selected_address, advance_address_mode(pre), last.n)

-----------------------------------------------------------------------------
(* C32 *)

\* the u8 that register_from_addr hands to RegisterType::from_repr
ReprOf(address, bank) ==
    IF bank
    THEN IF address < RegisterType_COUNT THEN address ELSE address - RegisterType_COUNT
    ELSE address \div 2

-----------------------------------------------------------------------------
(* C33 *)

\* C33 as stated: whenever wait_until_reset takes the recorded low instant and
\* compares its elapsed time with the threshold, that time is no longer than
\* the line has been continuously low.
\* Refuted by the code: elapsed() is read when run() is polled, and low_since
\* outlives the cancellation of run().
C33_ComparedDurationWasLow ==
    [][(low_since # -1 /\ low_since' # low_since)
          => now - low_since <= longest_low]_vars

-----------------------------------------------------------------------------
(* C34 *)

\* the byte a read of the register at `address` gives, 0 (what the caller's
\* buffer held) where the address has no register
ByteAt(self, address, is_high) ==
    LET register == register_from_addr(address, self.bank_mode)
    IN IF register.type = None THEN 0
       ELSE read_register(self, register, is_high).value

\* C34: byte i of a prepared buffer is the register read at the pointer
\* advanced i times; and after prepare and confirm_bytes_read(k), with pins
\* and registers unchanged, preparing again gives the first buffer shifted by
\* k positions.
C34_SplitReadContinuesTheSequence ==
    /\ (last.op = "prepare" /\ ~panicked)
          => \A i \in 0 .. (last.len - 1) :
                buffer[i + 1] =
                    ByteAt(pre, Times(pre.selected_address, advance_address_mode(pre), i),
                           Levels(last.levels))
    /\ (last.op = "confirm" /\ last.len >= 0 /\ ~panicked
            /\ overflow_checks # "undetermined")
          => LET again == prepare_read_buffer(Self, ZeroBuffer(last.len),
                                              Levels(last.levels))
             IN ~again.self.panicked
                  => \A i \in 1 .. (last.len - last.n) :
                        again.buffer[i] = buffer[i + last.n]
    /\ (last.op = "confirm" /\ last.len >= 0 /\ ~panicked
            /\ overflow_checks = "undetermined")
          => LET again == prepare_read_buffer(SelfIn("wrap"), ZeroBuffer(last.len),
                                              Levels(last.levels))
             IN ~again.self.panicked
                  => \A i \in 1 .. (last.len - last.n) :
                        again.buffer[i] = buffer[i + last.n]

C34_Witness ==
    /\ last.op = "confirm"
    /\ last.len = 3
    /\ last.n = 1
    /\ pre.selected_address = 12
    /\ buffer = <<170, 15, 170>>
    /\ prepare_read_buffer(Self, ZeroBuffer(3), Levels(last.levels)).buffer
          = <<15, 170, 15>>

-----------------------------------------------------------------------------
(* C35 *)

\* C35 as stated: in every Playing state pending_action implies that
\* latest_action(players, fascist_policies_placed) is an action, and
\* process_input never panics on its unwrap().
\* Refuted by the code: a scan with fewer fascist cards lowers the count and
\* leaves pending_action set.
C35_PendingActionHasAnAction ==
    /\ game_state.pending_action
          => latest_action(game_state.players, game_state.fascist_policies_placed) # None
    /\ game_last.op = "process_input" => ~game_state.panicked

-----------------------------------------------------------------------------
(* C36 *)

\* the items a selected_item of the screen can index
ItemsOf(state) ==
    CASE state.screen.kind = "MainMenu" -> Len(MainMenuSelectedItem)
      [] state.screen.kind = "Scanning" ->
            Len(ScanningSelectedItem)
                + (IF state.connection_action.kind = "Scan"
                   THEN Len(state.connection_action.peripherals)
                   ELSE 0)
      [] state.screen.kind = "ConnectingConnected" -> Len(ConnectingConnectedSelectedItem)

\* C36 as stated: in every SettingUp state reached by inputs and
\* ble_peripheral_found calls the Scanning screen is shown only while
\* connection_action is Scan, selected_item indexes an item of the screen, and
\* neither process_input nor screen panics.
\* Refuted by the code: the main menu's Bluetooth item opens the Scanning
\* screen whatever connection_action is.
C36_SetupScreensAreConsistent ==
    IsSettingUp(game_state)
        => /\ ~game_state.panicked
           /\ game_state.screen.kind = "Scanning"
                => game_state.connection_action.kind = "Scan"
           /\ game_state.screen.selected_item < ItemsOf(game_state)
           /\ ~screen(game_state).panicked


(* C37 *)

\* the stable value of a debouncer of either crate, as an Option
StableValue(crate, self) == IF crate = "code" THEN <<self.value>> ELSE self.value

\* the last call of process_data changed the stable value
StableValueChanged ==
    /\ debounce_last.op = "process_data"
    /\ StableValue(debounce_last.crate, debouncer)
            # StableValue(debounce_last.crate, debounce_pre)

\* ticks between the last reading and the start of its run of equal readings
StableFor == debounce_last.now - observed[1].instant

\* what C37 states apart from the length of the wait: the call reports a
\* change exactly when it makes one, the new stable value is the reading, and a
\* reading of the stable value discards the pending value
ReportsAndDiscards ==
    /\ debounce_last.changed <=> StableValueChanged
    /\ StableValueChanged
            => /\ StableValue(debounce_last.crate, debouncer) = <<debounce_last.latest_data>>
               /\ observed[1].value = debounce_last.latest_data
    /\ <<debounce_last.latest_data>> = StableValue(debounce_last.crate, debounce_pre)
            => /\ debouncer.pending_value = <<>>
               /\ ~StableValueChanged

OnTheBus(device) == spi_pc[device] = "operations"

\* C38: whenever a device's transaction performs its bus operations, the
\* device's chip-select carried out the last set_low and every other pin that
\* was driven low has been driven high since; and the tracked state of the
\* active chip-select is Low only if the last command that pin carried out
\* was set_low.
C38_OnlyTheSelectedChipIsLow ==
    /\ \A device \in Devices :
        OnTheBus(device)
            => /\ spi_mutex = device
               /\ spi_history.driven_low = <<device>>
               /\ cs_pins[device] = "set_low"
               /\ \A pin \in Devices \ {device} : cs_pins[pin] # "set_low"
    /\ (spi_inner.active_cs # <<>> /\ spi_inner.active_cs[1].state = "Low")
            => cs_pins[spi_inner.active_cs[1].index] = "set_low"

\* a device is on the bus of lazy_shared_spi after the chip-select of another
\* device was driven low and then high, and a third one was never driven
C38_Witness ==
    \E device \in Devices, other \in Devices :
        /\ OnTheBus(device)
        /\ other # device
        /\ cs_pins[other] = "set_high"
        /\ spi_inner.active_cs = <<ActiveCs(device, "Low")>>
        /\ spi_history.crate = "lazy_shared_spi"

====
